---------------------------- MODULE Spec2Model ----------------------------
(***************************************************************************)
(* Model of the ERC-8004 ZK-rebalancing agents (src/agents/*.py):          *)
(* RebalancerAgent (plan building, proof-package publication and           *)
(* validation request), ValidatorAgent (three-stage proof scoring) and the *)
(* registry / file-store state they act on.                                *)
(*                                                                         *)
(* Python values are modelled as tagged records:                           *)
(*   [t |-> "str",  str |-> "groth16"]    an opaque text                   *)
(*   [t |-> "dstr", dstr |-> <<"1","1">>] a text given character by        *)
(*                                        character (what int() parses)    *)
(*   [t |-> "int",  int |-> 3]                                             *)
(*   [t |-> "list", list |-> <<...>>]                                      *)
(*   [t |-> "dict", dict |-> << <<key, value>>, ... >>]  insertion order   *)
(* Python floats are IEEE-754 doubles: a 53-bit mantissa (most significant *)
(* bit first) and the exponent of its last bit; every float operation of   *)
(* the code is computed exactly and then rounded to nearest, ties to even. *)
(***************************************************************************)
EXTENDS Integers, Sequences, FiniteSets, TLC

(***************************************************************************)
(* IEEE-754 double arithmetic on non-negative values                       *)
(***************************************************************************)
MantissaBits == 53

\* arithmetic is carried out on chunks of ChunkBits bits
ChunkBits == 12

Pow2Tab == <<1, 2, 4, 8, 16, 32, 64, 128, 256, 512, 1024, 2048, 4096, 8192,
             16384, 32768, 65536, 131072, 262144, 524288, 1048576, 2097152,
             4194304, 8388608, 16777216, 33554432, 67108864, 134217728,
             268435456, 536870912, 1073741824>>
Pow2(k) == Pow2Tab[k + 1]
ChunkBase == Pow2(ChunkBits)

Zeros(n) == [i \in 1..n |-> 0]

SetMin(S) == CHOOSE x \in S : \A y \in S : x <= y
SetMax(S) == CHOOSE x \in S : \A y \in S : x >= y

StripZeros(b) ==
  LET ones == {i \in 1..Len(b) : b[i] = 1}
  IN  IF ones = {} THEN <<>> ELSE SubSeq(b, SetMin(ones), Len(b))

\* the w-bit representation of n < 2^w, most significant bit first
BitsOfNatW(n, w) == [i \in 1..w |-> (n \div Pow2(w - i)) % 2]

BitsOfNat(n) == StripZeros(BitsOfNatW(n, 31))

RECURSIVE NatOfBits(_)
NatOfBits(b) ==
  IF Len(b) = 0 THEN 0
  ELSE IF Len(b) = 1 THEN b[1]
  ELSE LET h == Len(b) \div 2
       IN  NatOfBits(SubSeq(b, 1, h)) * Pow2(Len(b) - h) + NatOfBits(SubSeq(b, h + 1, Len(b)))

\* the chunks of a bit sequence, most significant first
Chunks(b) ==
  LET n   == (Len(b) + ChunkBits - 1) \div ChunkBits
      pad == Zeros(n * ChunkBits - Len(b)) \o b
  IN  [j \in 1..n |-> NatOfBits(SubSeq(pad, (j - 1) * ChunkBits + 1, j * ChunkBits))]

\* the bit sequence of a sequence of chunks
BitsOfChunks(c) ==
  [i \in 1..(Len(c) * ChunkBits) |->
     BitsOfNatW(c[((i - 1) \div ChunkBits) + 1], ChunkBits)[((i - 1) % ChunkBits) + 1]]

\* b + 1, one bit longer when every bit of b is 1
IncBits(b) ==
  LET zs == {i \in 1..Len(b) : b[i] = 0}
  IN  IF zs = {} THEN <<1>> \o Zeros(Len(b))
      ELSE LET p == SetMax(zs)
           IN  [i \in 1..Len(b) |-> IF i < p THEN b[i] ELSE IF i = p THEN 1 ELSE 0]

FZero == [m |-> <<>>, e |-> 0]

\* the double nearest to bits * 2^e (round to nearest, ties to even)
RoundBits(bits, e) ==
  LET b == StripZeros(bits)
      n == Len(b)
  IN  IF n = 0 THEN FZero
      ELSE IF n <= MantissaBits
        THEN [m |-> b \o Zeros(MantissaBits - n), e |-> e - (MantissaBits - n)]
        ELSE LET keep   == SubSeq(b, 1, MantissaBits)
                 guard  == b[MantissaBits + 1]
                 sticky == \E i \in (MantissaBits + 2)..n : b[i] = 1
                 up     == guard = 1 /\ (sticky \/ keep[MantissaBits] = 1)
                 r      == IF up THEN IncBits(keep) ELSE keep
                 e2     == e + (n - MantissaBits)
             IN  IF Len(r) > MantissaBits
                   THEN [m |-> SubSeq(r, 1, MantissaBits), e |-> e2 + 1]
                   ELSE [m |-> r, e |-> e2]

FromInt(n) == RoundBits(BitsOfNat(n), 0)

\* n more quotient chunks of r/d (r < d), followed by a sticky chunk
RECURSIVE DivChunks(_, _, _)
DivChunks(r, d, n) ==
  IF n = 0 THEN <<IF r = 0 THEN 0 ELSE 1>>
  ELSE <<(r * ChunkBase) \div d>> \o DivChunks((r * ChunkBase) % d, d, n - 1)

RECURSIVE ScaleUp(_, _, _)
ScaleUp(v, t, k) == IF v >= t THEN <<v, k>> ELSE ScaleUp(2 * v, t, k + 1)

RECURSIVE ScaleDown(_, _, _)
ScaleDown(v, t, k) == IF v < 2 * t THEN <<t, k>> ELSE ScaleDown(v, 2 * t, k + 1)

\* Python's v / t on ints (true division), v >= 0, t > 0
FDiv(v, t) ==
  IF v = 0 THEN FZero
  ELSE LET up == ScaleUp(v, t, 0)
           dn == ScaleDown(up[1], t, 0)
           n  == up[1]
           d  == dn[1]
           \* n/d in [1,2): the leading 1, five chunks of quotient, a sticky chunk
           q  == <<1>> \o BitsOfChunks(DivChunks(n - d, d, 5))
       IN  RoundBits(q, dn[2] - up[2] - 6 * ChunkBits)

\* the chunks of c * k + carry for a small natural k, from the last chunk
RECURSIVE MulChunks(_, _, _, _)
MulChunks(c, i, carry, k) ==
  IF i = 0 THEN <<carry>>
  ELSE LET acc == c[i] * k + carry
       IN  Append(MulChunks(c, i - 1, acc \div ChunkBase, k), acc % ChunkBase)

MulSmall(b, k) ==
  LET c == Chunks(b) IN StripZeros(BitsOfChunks(MulChunks(c, Len(c), 0, k)))

\* Python's x * k, x a float and k a small non-negative int
FMulInt(x, k) == RoundBits(MulSmall(x.m, k), x.e)

RECURSIVE AddChunks(_, _, _, _)
AddChunks(a, b, i, carry) ==
  IF i = 0 THEN <<carry>>
  ELSE LET acc == a[i] + b[i] + carry
       IN  Append(AddChunks(a, b, i - 1, acc \div ChunkBase), acc % ChunkBase)

\* both mantissas over the smaller exponent, padded to one length
Aligned(x, y) ==
  LET e  == IF x.e <= y.e THEN x.e ELSE y.e
      a  == x.m \o Zeros(x.e - e)
      b  == y.m \o Zeros(y.e - e)
      n  == IF Len(a) >= Len(b) THEN Len(a) ELSE Len(b)
  IN  [a |-> Zeros(n - Len(a)) \o a, b |-> Zeros(n - Len(b)) \o b, e |-> e, n |-> n]

\* Python's x + y on floats
FAdd(x, y) ==
  IF x.m = <<>> THEN y
  ELSE IF y.m = <<>> THEN x
  ELSE LET al == Aligned(x, y)
           ca == Chunks(al.a)
           cb == Chunks(al.b)
       IN  RoundBits(BitsOfChunks(AddChunks(ca, cb, Len(ca), 0)), al.e)

\* -1, 0, 1 as x < y, x = y, x > y
FCmp(x, y) ==
  IF x.m = <<>> /\ y.m = <<>> THEN 0
  ELSE IF x.m = <<>> THEN -1
  ELSE IF y.m = <<>> THEN 1
  ELSE LET al == Aligned(x, y)
           ds == {i \in 1..al.n : al.a[i] # al.b[i]}
       IN  IF ds = {} THEN 0
           ELSE IF al.a[SetMin(ds)] > al.b[SetMin(ds)] THEN 1 ELSE -1

\* Python compares a float with an int by value
FLtInt(x, n) == FCmp(x, FromInt(n)) = -1
FGtInt(x, n) == FCmp(x, FromInt(n)) = 1

\* Python's int(x): truncation (x >= 0)
FTrunc(x) ==
  IF x.m = <<>> THEN 0
  ELSE IF x.e >= 0 THEN NatOfBits(x.m) * Pow2(x.e)
  ELSE IF MantissaBits + x.e <= 0 THEN 0
  ELSE NatOfBits(SubSeq(x.m, 1, MantissaBits + x.e))

\* Python's round(x, 2), as the integer number of hundredths k whose nearest
\* double is returned: x * 100 exactly, rounded to an integer, ties to even
Round2(x) ==
  IF x.m = <<>> THEN 0
  ELSE LET p == MulSmall(x.m, 100)
           n == Len(p)
       IN  IF x.e >= 0 THEN NatOfBits(p) * Pow2(x.e)
           ELSE IF n + x.e < 0 THEN 0
           ELSE LET int    == NatOfBits(SubSeq(p, 1, n + x.e))
                    guard  == p[n + x.e + 1]
                    sticky == \E i \in (n + x.e + 2)..n : p[i] = 1
                IN  IF guard = 1 /\ (sticky \/ int % 2 = 1) THEN int + 1 ELSE int

(***************************************************************************)
(* Python values                                                           *)
(***************************************************************************)
PyStr(s)   == [t |-> "str", str |-> s]
PyDStr(cs) == [t |-> "dstr", dstr |-> cs]
PyNum(n)   == [t |-> "int", int |-> n]
\* the float nearest to k/100 (what round(x, 2) returns)
PyFloat2(k) == [t |-> "float2", float2 |-> k]
PyList(xs) == [t |-> "list", list |-> xs]
PyDict(ps) == [t |-> "dict", dict |-> ps]
PyNone     == [t |-> "none", none |-> 0]
PyBool(b)  == [t |-> "bool", bool |-> b]
\* the text of 64 hex digits that spells a digest
PyHex(d)   == [t |-> "hexstr", hexstr |-> d]
\* a text that json.dumps produced
PyJson(x)  == [t |-> "jsonstr", jsonstr |-> x]

\* bool(v)
Truthy(v) ==
  CASE v.t = "none"   -> FALSE
    [] v.t = "int"    -> v.int # 0
    [] v.t = "float2" -> v.float2 # 0
    [] v.t = "str"    -> v.str # ""
    [] v.t = "dstr"   -> Len(v.dstr) > 0
    [] v.t = "list"   -> Len(v.list) > 0
    [] v.t = "dict"   -> Len(v.dict) > 0
    [] v.t = "bool"   -> v.bool
    [] OTHER          -> TRUE

\* key in d
HasKey(d, k) == \E i \in 1..Len(d.dict) : d.dict[i][1] = k

\* d.get(k, default)
DictGet(d, k, default) ==
  IF HasKey(d, k)
    THEN d.dict[CHOOSE i \in 1..Len(d.dict) : d.dict[i][1] = k][2]
    ELSE default

Raise(exc, msg) == [ok |-> FALSE, exc |-> exc, msg |-> msg]
Return(x)      == [ok |-> TRUE, val |-> x]

DigitChars == <<"0", "1", "2", "3", "4", "5", "6", "7", "8", "9">>
IsDigit(c) == \E i \in 1..10 : DigitChars[i] = c
DigitVal(c) == (CHOOSE i \in 1..10 : DigitChars[i] = c) - 1

RECURSIVE IntOfDigits(_)
IntOfDigits(cs) ==
  IF cs = <<>> THEN 0
  ELSE 10 * IntOfDigits(SubSeq(cs, 1, Len(cs) - 1)) + DigitVal(cs[Len(cs)])

\* int(v): the decimal value of a text of digits; any other text, and a
\* value that is no number, raises
PyInt(v) ==
  CASE v.t = "int"  -> Return(v.int)
    [] v.t = "dstr" -> IF Len(v.dstr) > 0 /\ \A i \in 1..Len(v.dstr) : IsDigit(v.dstr[i])
                         THEN Return(IntOfDigits(v.dstr))
                         ELSE Raise("ValueError", "invalid literal for int()")
    [] v.t = "str"  -> Raise("ValueError", "invalid literal for int()")
    [] OTHER        -> Raise("TypeError", "int() argument")

\* iter(v): the items of a list, the characters of a text, the keys of a dict
PyIter(v) ==
  CASE v.t = "list" -> Return(v.list)
    [] v.t = "dstr" -> Return([i \in 1..Len(v.dstr) |-> PyDStr(<<v.dstr[i]>>)])
    [] v.t = "dict" -> Return([i \in 1..Len(v.dict) |-> PyStr(v.dict[i][1])])
    [] OTHER        -> Raise("TypeError", "object is not iterable")

MinOf(a, b) == IF a <= b THEN a ELSE b

\* sum(int(bal) * int(price) for bal, price in zip(bals, prices)) on the
\* first n pairs; the first pair that does not parse raises
RECURSIVE SumProducts(_, _, _)
SumProducts(bals, prices, n) ==
  IF n = 0 THEN Return(0)
  ELSE LET rest == SumProducts(bals, prices, n - 1)
           b    == PyInt(bals[n])
           p    == PyInt(prices[n])
       IN  IF ~rest.ok THEN rest
           ELSE IF ~b.ok THEN b
           ELSE IF ~p.ok THEN p
           ELSE Return(rest.val + b.val * p.val)

\* the total value of zip(bals, prices)
TotalValue(bals, prices) ==
  LET bi == PyIter(bals)
      pi == PyIter(prices)
  IN  IF ~bi.ok THEN bi
      ELSE IF ~pi.ok THEN pi
      ELSE SumProducts(bi.val, pi.val, MinOf(Len(bi.val), Len(pi.val)))

\* (value / new_total) * 100 if new_total > 0 else 0
AllocationPct(value, new_total) ==
  IF new_total > 0 THEN FMulInt(FDiv(value, new_total), 100) ELSE FZero

(***************************************************************************)
(* RebalancerAgent.create_rebalancing_plan                                 *)
(***************************************************************************)
\* the new_allocations entry of token i (0-based), new_total as computed
AllocationEntry(i, bal, price, new_total) ==
  LET value == PyInt(bal).val * PyInt(price).val
  IN  PyDict(<< <<"token_index", PyNum(i)>>,
                <<"balance", bal>>,
                <<"value", PyNum(value)>>,
                <<"allocation_pct",
                  IF new_total > 0
                    THEN PyFloat2(Round2(AllocationPct(value, new_total)))
                    ELSE PyNum(0)>> >>)

\* the rounded percentage of an entry, in hundredths
EntryPct(alloc) ==
  LET p == DictGet(alloc, "allocation_pct", PyNone)
  IN  IF p.t = "float2" THEN p.float2 ELSE 100 * p.int

\* the allocation-bound warnings printed, in order
BoundWarnings(allocs, min_pct, max_pct) ==
  LET cand == [j \in 1..(2 * Len(allocs)) |->
                 [token_index |-> ((j + 1) \div 2) - 1,
                  kind |-> IF j % 2 = 1 THEN "below minimum" ELSE "above maximum"]]
      Hit(w) == LET k == EntryPct(allocs[w.token_index + 1])
                IN  IF w.kind = "below minimum" THEN k < 100 * min_pct
                                                ELSE k > 100 * max_pct
  IN  SelectSeq(cand, Hit)

\* a plausible slip: only a loss of value is rejected
ValuePreservedOnlyLoss(old_total, new_total) == old_total <= new_total

\* line 61: the value-preservation test
ValuePreserved(old_total, new_total) == old_total = new_total

\* create_rebalancing_plan(old_balances, new_balances, prices,
\*                         min_allocation_pct, max_allocation_pct)
\* block: the chain's answer to get_block("latest"), self: the agent's fields
create_rebalancing_plan(old_balances, new_balances, prices, min_allocation_pct, max_allocation_pct, block, self) ==
  LET old_total == TotalValue(old_balances, prices)
      new_total == TotalValue(new_balances, prices)
      n         == MinOf(Len(PyIter(new_balances).val), Len(PyIter(prices).val))
      allocs    == [i \in 1..n |->
                      AllocationEntry(i - 1, PyIter(new_balances).val[i],
                                      PyIter(prices).val[i], new_total.val)]
      min_pct   == PyInt(min_allocation_pct)
      max_pct   == PyInt(max_allocation_pct)
  IN  IF ~old_total.ok THEN old_total
      ELSE IF ~new_total.ok THEN new_total
      ELSE IF ~ValuePreserved(old_total.val, new_total.val)
        THEN Raise("ValueError", "Portfolio value not preserved!")
      ELSE IF ~min_pct.ok THEN min_pct
      ELSE IF ~max_pct.ok THEN max_pct
      ELSE IF ~block.ok THEN block
      ELSE [ok |-> TRUE,
            val |-> PyDict(<< <<"old_balances", old_balances>>,
                              <<"new_balances", new_balances>>,
                              <<"prices", prices>>,
                              <<"old_total_value", PyNum(old_total.val)>>,
                              <<"new_total_value", PyNum(new_total.val)>>,
                              <<"new_allocations", PyList(allocs)>>,
                              <<"min_allocation_pct", min_allocation_pct>>,
                              <<"max_allocation_pct", max_allocation_pct>>,
                              <<"timestamp", PyNum(block.val)>>,
                              <<"agent_id", self.agent_id>>,
                              <<"agent_domain", self.agent_domain>> >>),
            warnings |-> BoundWarnings(allocs, min_pct.val, max_pct.val)]

(***************************************************************************)
(* ValidatorAgent._verify_rebalancing_logic                                *)
(***************************************************************************)
\* the for loop of lines 225-233: allocations_valid
AllocationsValid(new_balances, prices, new_total, min_pct, max_pct) ==
  LET bi == PyIter(new_balances).val
      pi == PyIter(prices).val
  IN  \A i \in 1..MinOf(Len(bi), Len(pi)) :
        LET value          == PyInt(bi[i]).val * PyInt(pi[i]).val
            allocation_pct == AllocationPct(value, new_total)
        IN  ~(FLtInt(allocation_pct, min_pct) \/ FGtInt(allocation_pct, max_pct))

\* the body of the try block: the value returned, or the exception raised
RebalancingLogicBody(proof_package) ==
  IF proof_package.t # "dict" THEN Raise("AttributeError", "get")
  ELSE
  LET rebalancing_plan == DictGet(proof_package, "rebalancing_plan", PyDict(<<>>))
  IN  IF rebalancing_plan.t # "dict" THEN Raise("AttributeError", "get")
  ELSE
  LET old_balances == DictGet(rebalancing_plan, "old_balances", PyList(<<>>))
      new_balances == DictGet(rebalancing_plan, "new_balances", PyList(<<>>))
      prices       == DictGet(rebalancing_plan, "prices", PyList(<<>>))
      min_pct == PyInt(DictGet(rebalancing_plan, "min_allocation_pct", PyDStr(<<"0">>)))
      max_pct == PyInt(DictGet(rebalancing_plan, "max_allocation_pct",
                               PyDStr(<<"1", "0", "0">>)))
      old_total == TotalValue(old_balances, prices)
      new_total == TotalValue(new_balances, prices)
  IN  IF ~min_pct.ok THEN min_pct
      ELSE IF ~max_pct.ok THEN max_pct
      ELSE IF ~(Truthy(old_balances) /\ Truthy(new_balances) /\ Truthy(prices))
        THEN Return(0)
      ELSE IF ~old_total.ok THEN old_total
      ELSE IF ~new_total.ok THEN new_total
      ELSE IF old_total.val # new_total.val THEN Return(30)
      ELSE IF ~AllocationsValid(new_balances, prices, new_total.val,
                                min_pct.val, max_pct.val)
        THEN Return(70)
      ELSE Return(100)

\* a slip: the except clause of the structure stage (return 0) in the logic stage
LogicZeroOnError(proof_package) ==
  LET r == RebalancingLogicBody(proof_package)
  IN  IF r.ok THEN r.val ELSE 0

\* except Exception: return 50
_verify_rebalancing_logic(proof_package) ==
  LET r == RebalancingLogicBody(proof_package)
  IN  IF r.ok THEN r.val ELSE 50

(***************************************************************************)
(* ValidatorAgent._verify_proof_structure                                  *)
(***************************************************************************)
StrEq(v, s) == v.t = "str" /\ v.str = s

\* isinstance(v, list) and len(v) == n
IsListOfLen(v, n) == v.t = "list" /\ Len(v.list) = n

RequiredKeys == <<"pi_a", "pi_b", "pi_c", "protocol", "curve">>

\* key in container: the keys of a dict, the items of a list, the parts of a
\* text (no text of the model holds a key name); any other value raises
Contains(container, key) ==
  CASE container.t = "dict" -> Return(HasKey(container, key))
    [] container.t = "list" ->
         Return(\E i \in 1..Len(container.list) : StrEq(container.list[i], key))
    [] container.t \in {"str", "dstr"} -> Return(FALSE)
    [] OTHER -> Raise("TypeError", "argument is not iterable")

\* a slip: the public inputs are not looked at
PublicInputsUnchecked(public_inputs) == TRUE

\* line 129: isinstance(public_inputs, list)
PublicInputsIsList(public_inputs) == public_inputs.t = "list"

\* the body of the try block
ProofStructureBody(proof, public_inputs) ==
  IF ~Contains(proof, RequiredKeys[1]).ok
    THEN Contains(proof, RequiredKeys[1])
  ELSE IF \E i \in 1..Len(RequiredKeys) : ~Contains(proof, RequiredKeys[i]).val
    THEN Return(0)
  ELSE IF proof.t # "dict"
    THEN Raise("TypeError", "indices must be integers")
  ELSE IF \/ ~StrEq(DictGet(proof, "protocol", PyNone), "groth16")
          \/ ~StrEq(DictGet(proof, "curve", PyNone), "bn128")
    THEN Return(50)
  ELSE IF ~PublicInputsIsList(public_inputs)
    THEN Return(50)
  ELSE IF ~(/\ IsListOfLen(DictGet(proof, "pi_a", PyNone), 3)
            /\ IsListOfLen(DictGet(proof, "pi_b", PyNone), 3)
            /\ IsListOfLen(DictGet(proof, "pi_c", PyNone), 3))
    THEN Return(60)
  ELSE Return(100)

\* _verify_proof_structure(proof, public_inputs): any exception scores 0
_verify_proof_structure(proof, public_inputs) ==
  LET r == ProofStructureBody(proof, public_inputs)
  IN  IF r.ok THEN r.val ELSE 0

(***************************************************************************)
(* ValidatorAgent._verify_proof_cryptography                               *)
(* What the environment does during the call is its argument run:          *)
(*   raised     "open" when a temporary file cannot be written, "run" when *)
(*              subprocess.run raises, "none" when snarkjs ran             *)
(*   returncode, ok_marker   the exit status and whether stdout holds OK   *)
(***************************************************************************)
TempFiles == {"build/temp_proof.json", "build/temp_public.json"}

\* a slip: snarkjs is trusted on its exit status alone
VerifierSaysValidOnExit(run) == run.returncode = 0

\* line 186: result.returncode == 0 and "OK" in result.stdout
VerifierSaysValid(run) == run.returncode = 0 /\ run.ok_marker

_verify_proof_cryptography(proof, public_inputs, run) ==
  IF run.raised # "none" THEN 50
  ELSE IF VerifierSaysValid(run) THEN 100
  ELSE 0

\* the temporary files after the call: written before snarkjs runs and
\* removed after it returned
TempFilesAfter(files, run) ==
  CASE run.raised = "open" -> files
    [] run.raised = "run"  -> files \cup TempFiles
    [] OTHER               -> files \ TempFiles

(***************************************************************************)
(* json and hashlib                                                        *)
(* A JSON text is the document it spells, its dicts in the order they were *)
(* written; a digest is modelled by the text it is the SHA-256 of          *)
(* (no collisions).                                                        *)
(***************************************************************************)
\* the keys of the dicts of a proof package, ascending as Python compares texts
KeyOrder ==
  <<"agent_domain", "agent_id", "allocation_pct", "balance", "circuit",
    "circuit_input", "curve", "maxAllocationPct", "max_allocation_pct",
    "metadata", "minAllocationPct", "min_allocation_pct", "newBalances",
    "new_allocations", "new_balances", "new_total_value", "oldBalances",
    "old_balances", "old_total_value", "pi_a", "pi_b", "pi_c", "prices",
    "proof", "proof_system", "protocol", "public_inputs",
    "rebalancing_plan", "timestamp", "token_index", "totalValueCommitment",
    "value">>

\* the document with every dict's items in ascending key order
RECURSIVE SortKeys(_)
SortKeys(v) ==
  CASE v.t = "dict" ->
         LET keys == SelectSeq(KeyOrder, LAMBDA k : HasKey(v, k))
         IN  PyDict([i \in 1..Len(keys) |->
                      <<keys[i], SortKeys(DictGet(v, keys[i], PyNone))>>])
    [] v.t = "list" -> PyList([i \in 1..Len(v.list) |-> SortKeys(v.list[i])])
    [] OTHER -> v

\* json.dumps(v, sort_keys=..., indent=...) and json.dump to a file
json_dumps(v, sort_keys, indent) ==
  [doc |-> IF sort_keys THEN SortKeys(v) ELSE v, indent |-> indent]

\* json.load / json.loads of a complete text
json_loads(text) == text.doc

\* a slip: the package is serialized in insertion order
InsertionOrderDumps(v) == json_dumps(v, FALSE, 0)

\* the producer's json.dumps(proof_package, sort_keys=True)
CanonicalDumps(v) == json_dumps(v, TRUE, 0)

\* hashlib.sha256(text.encode()).digest()
sha256(text) == [sha256 |-> text]

\* digest.hex() and hashlib's hexdigest()
Hex(digest) == PyHex(digest)

\* bytes.fromhex(s)
FromHex(s) ==
  IF s.t = "hexstr" THEN Return(s.hexstr)
  ELSE IF s.t \in {"str", "dstr"} THEN Raise("ValueError", "non-hexadecimal number")
  ELSE Raise("TypeError", "fromhex() argument must be str")

\* the producer's data_hash of a package
ContentDigest(proof_package) == sha256(CanonicalDumps(proof_package))

(***************************************************************************)
(* Files                                                                   *)
(* A file holds a JSON text; while it is being written it holds a strict   *)
(* prefix of the text (open(.., "w") truncates, json.dump writes in        *)
(* pieces), which json.load rejects.                                       *)
(***************************************************************************)
PartialFile(text)  == [written |-> "partial", text |-> text]
CompleteFile(text) == [written |-> "all", text |-> text]

\* open(name, "r") and json.load
ReadJson(files, name) ==
  IF name \notin DOMAIN files THEN Raise("FileNotFoundError", "No such file")
  ELSE IF files[name].written # "all" THEN Raise("JSONDecodeError", "Expecting value")
  ELSE Return(json_loads(files[name].text))

\* files with name mapped to content
WithFile(files, name, content) ==
  [n \in DOMAIN files \cup {name} |-> IF n = name THEN content ELSE files[n]]

\* _load_proof_package(data_hash): None when the file does not exist
_load_proof_package(files, data_hash) ==
  LET r == ReadJson(files, data_hash)
  IN  IF ~r.ok /\ r.exc = "FileNotFoundError" THEN Return(PyNone) ELSE r

(***************************************************************************)
(* ValidatorAgent.validate_proof                                           *)
(***************************************************************************)
\* the literals 0.2, 0.5 and 0.3 as doubles
StructureWeight == FDiv(1, 5)
CryptoWeight    == FDiv(1, 2)
LogicWeight     == FDiv(3, 10)

\* a slip: the logic weight applied to the structure score as well
OverallScoreLogicWeighted(structure_score, crypto_score, logic_score) ==
  FTrunc(FAdd(FAdd(FMulInt(LogicWeight, structure_score),
                   FMulInt(CryptoWeight, crypto_score)),
              FMulInt(LogicWeight, logic_score)))

\* int((structure_score * 0.2) + (crypto_score * 0.5) + (logic_score * 0.3))
OverallScore(structure_score, crypto_score, logic_score) ==
  FTrunc(FAdd(FAdd(FMulInt(StructureWeight, structure_score),
                   FMulInt(CryptoWeight, crypto_score)),
              FMulInt(LogicWeight, logic_score)))

\* a slip: a logic score of 70 passes as meeting the constraints
MeetsConstraintsFrom70(logic_score) == logic_score >= 70

\* line 99: logic_score >= 80
MeetsConstraints(logic_score) == logic_score >= 80

ErrorResult(msg) ==
  PyDict(<<<<"error", PyStr(msg)>>, <<"score", PyNum(0)>>,
           <<"validation_complete", PyBool(FALSE)>>>>)

\* the dict validate_proof returns after the three stages
ValidationResult(final_hash, proof_package, structure_score, crypto_score, logic_score, timestamp, self) ==
  LET overall_score == OverallScore(structure_score, crypto_score, logic_score)
      validation_report ==
        PyDict(<<<<"structure_score", PyNum(structure_score)>>,
                 <<"cryptographic_score", PyNum(crypto_score)>>,
                 <<"logic_score", PyNum(logic_score)>>,
                 <<"overall_score", PyNum(overall_score)>>,
                 <<"proof_valid", PyBool(crypto_score = 100)>>,
                 <<"meets_constraints", PyBool(MeetsConstraints(logic_score))>>>>)
  IN  PyDict(<<<<"is_valid", PyBool(overall_score >= 70)>>,
               <<"score", PyNum(overall_score)>>,
               <<"validation_package",
                 PyDict(<<<<"data_hash", final_hash>>,
                          <<"validator_agent_id", self.agent_id>>,
                          <<"validator_domain", self.agent_domain>>,
                          <<"timestamp", PyNum(timestamp)>>,
                          <<"validation_score", PyNum(overall_score)>>,
                          <<"validation_report", validation_report>>,
                          <<"original_proof", proof_package>>>>)>>,
               <<"report", PyJson(json_dumps(validation_report, FALSE, 2))>>>>)

\* validate_proof with stages that depend on the verifier: when the verifier
\* cannot be run the other two stages are not scored
ValidatePackageCoupled(final_hash, proof_package, run, block, self) ==
  IF proof_package.t # "dict"
    THEN [ret |-> Raise("AttributeError", "object has no attribute 'get'"),
          verified |-> FALSE]
  ELSE
    LET proof         == DictGet(proof_package, "proof", PyNone)
        public_inputs == DictGet(proof_package, "public_inputs", PyNone)
    IN  IF ~Truthy(proof) \/ ~Truthy(public_inputs)
          THEN [ret |-> Return(ErrorResult("Invalid proof package format")),
                verified |-> FALSE]
        ELSE [ret |-> IF ~block.ok THEN block
                      ELSE Return(ValidationResult(
                             final_hash, proof_package,
                             IF run.raised # "none" THEN 0
                               ELSE _verify_proof_structure(proof, public_inputs),
                             _verify_proof_cryptography(proof, public_inputs, run),
                             IF run.raised # "none" THEN 0
                               ELSE _verify_rebalancing_logic(proof_package),
                             block.val, self)),
              verified |-> TRUE]

\* the stages and the result, from the package on
ValidatePackage(final_hash, proof_package, run, block, self) ==
  IF proof_package.t # "dict"
    THEN [ret |-> Raise("AttributeError", "object has no attribute 'get'"),
          verified |-> FALSE]
  ELSE
    LET proof         == DictGet(proof_package, "proof", PyNone)
        public_inputs == DictGet(proof_package, "public_inputs", PyNone)
    IN  IF ~Truthy(proof) \/ ~Truthy(public_inputs)
          THEN [ret |-> Return(ErrorResult("Invalid proof package format")),
                verified |-> FALSE]
        ELSE [ret |-> IF ~block.ok THEN block
                      ELSE Return(ValidationResult(
                             final_hash, proof_package,
                             _verify_proof_structure(proof, public_inputs),
                             _verify_proof_cryptography(proof, public_inputs, run),
                             _verify_rebalancing_logic(proof_package),
                             block.val, self)),
              verified |-> TRUE]

\* validate_proof(data_hash): ret is what the call returns or raises,
\* verified tells whether the verifier was called
validate_proof(data_hash, files, run, block, self) ==
  IF data_hash.t = "dict"
    THEN ValidatePackage(Hex(sha256(json_dumps(data_hash, TRUE, 0))),
                         data_hash, run, block, self)
  ELSE
    LET loaded == _load_proof_package(files, data_hash)
    IN  IF ~loaded.ok THEN [ret |-> loaded, verified |-> FALSE]
        ELSE IF ~Truthy(loaded.val)
          THEN [ret |-> Return(ErrorResult("Proof package not found")),
                verified |-> FALSE]
        ELSE ValidatePackage(data_hash, loaded.val, run, block, self)

(***************************************************************************)
(* State                                                                   *)
(***************************************************************************)
VARIABLES
  agent_id,          \* each agent's self.agent_id (0: None)
  data_files,        \* the files data/<hash>.json: name -> content
  validation_files,  \* the files validations/<hash>.json: name -> content
  build_files,       \* the temporary files of the verifier that exist
  registry,          \* the transactions the registry has mined
  pc,                \* where the rebalancer is in submit_proof_for_validation
  call,              \* the last call that returned or raised, with its result
  feedback_history,  \* the client's self.feedback_history
  temp_text,         \* what the verifier's temporary files hold, where the
                     \* stage is followed step by step: name -> text
  instances,         \* the validators that run interleaved: each one's
                     \* position in _verify_proof_cryptography and its locals
  workflow           \* the end-to-end workflow: the steps run and how they ended

vars == <<agent_id, data_files, validation_files, build_files, registry, pc, call, feedback_history, temp_text, instances, workflow>>

\* the state the calls of one agent taken alone leave as it is
others == <<feedback_history, temp_text, instances, workflow>>

Agents == {"rebalancer", "validator", "client"}

AgentDomain(a) == PyStr(a)

\* the id the registry gives each agent
RegisteredId(a) == CASE a = "rebalancer" -> 1 [] a = "validator" -> 2 [] OTHER -> 3

\* self.agent_id and self.agent_domain as Python values
Self(a) == [agent_id |-> IF agent_id[a] = 0 THEN PyNone ELSE PyNum(agent_id[a]),
            agent_domain |-> AgentDomain(a)]

Idle == [at |-> "idle"]
NoCall == [op |-> "none"]

\* the chain's answers to get_block("latest")["timestamp"]
BlockAnswers == {Return(1000), Raise("ConnectionError", "rpc")}

(***************************************************************************)
(* Inputs of the plan builder and of the logic stage                       *)
(***************************************************************************)
MaxAssets == 2

ListsOver(S) == UNION {[1..k -> S] : k \in 0..MaxAssets}

OldNumerals   == {PyDStr(<<"9">>), PyDStr(<<"1", "1">>)}
NewNumerals   == {PyDStr(<<"9">>), PyDStr(<<"1", "1">>), PyDStr(<<"x">>)}
PriceNumerals == {PyDStr(<<"0">>), PyDStr(<<"1">>)}

OldLists   == {PyList(l) : l \in ListsOver(OldNumerals)}
NewLists   == {PyList(l) : l \in ListsOver(NewNumerals)}
PriceLists == {PyList(l) : l \in ListsOver(PriceNumerals)}

\* an argument the caller leaves out, a key the dict lacks
Omitted == [t |-> "omitted", omitted |-> 0]

\* <<min_allocation_pct, max_allocation_pct>>
BoundPairs == {<<Omitted, Omitted>>,
               <<PyDStr(<<"0">>), PyDStr(<<"5", "5">>)>>,
               <<PyDStr(<<"4", "5">>), PyDStr(<<"1", "0", "0">>)>>,
               <<PyDStr(<<"1", "0">>), PyDStr(<<"4", "0">>)>>,
               <<PyDStr(<<"x">>), PyDStr(<<"1", "0", "0">>)>>}

\* the defaults of create_rebalancing_plan's parameters
DefaultMinAllocationPct == PyDStr(<<"1", "0">>)
DefaultMaxAllocationPct == PyDStr(<<"4", "0">>)

OrDefault(arg, default) == IF arg.t = "omitted" THEN default ELSE arg

\* a dict of the pairs whose value is not Omitted
DictOf(pairs) == PyDict(SelectSeq(pairs, LAMBDA kv : kv[2].t # "omitted"))

\* the plans handed to the logic stage: any of the fields may be missing
LogicPlans ==
  {DictOf(<< <<"old_balances", o>>, <<"new_balances", n>>, <<"prices", p>>,
             <<"min_allocation_pct", b[1]>>, <<"max_allocation_pct", b[2]>> >>) :
     o \in OldLists, n \in NewLists, p \in PriceLists, b \in BoundPairs}
  \cup {PyDict(<<>>), PyStr("plan"), PyNone,
        PyDict(<< <<"old_balances", PyDStr(<<"9">>)>>,
                  <<"new_balances", PyList(<<PyDStr(<<"9">>)>>)>>,
                  <<"prices", PyList(<<PyDStr(<<"1">>)>>)>> >>),
        PyDict(<< <<"old_balances", PyNum(9)>>,
                  <<"new_balances", PyList(<<PyDStr(<<"9">>)>>)>>,
                  <<"prices", PyList(<<PyDStr(<<"1">>)>>)>> >>)}

LogicPackages ==
  {PyDict(<< <<"rebalancing_plan", plan>> >>) : plan \in LogicPlans}
  \cup {PyDict(<<>>)}

(***************************************************************************)
(* The plan builder and the logic stage as operations: the initial state   *)
(* holds the call and its arguments, the action carries it out             *)
(***************************************************************************)
Pending == [pending |-> TRUE]
IsPending(c) == c.op # "none" /\ DOMAIN c.result = {"pending"}
Done(c, op) == c.op = op /\ DOMAIN c.result # {"pending"}

\* the client has recorded nothing, no validator runs interleaved, no
\* workflow has started
InitRest ==
  /\ feedback_history = <<>>
  /\ temp_text = <<>>
  /\ instances = <<>>
  /\ workflow = <<>>

InitIdle ==
  /\ data_files = <<>>
  /\ validation_files = <<>>
  /\ build_files = {}
  /\ registry = <<>>
  /\ pc = Idle
  /\ InitRest

PlanCalls ==
  {[op |-> "create_rebalancing_plan",
    args |-> [old_balances |-> o, new_balances |-> n, prices |-> p,
              min_allocation_pct |-> b[1], max_allocation_pct |-> b[2],
              block |-> block],
    result |-> Pending] :
     o \in OldLists, n \in NewLists, p \in PriceLists, b \in BoundPairs,
     block \in BlockAnswers}

LogicCalls ==
  {[op |-> "_verify_rebalancing_logic", args |-> [proof_package |-> pkg],
    result |-> Pending] : pkg \in LogicPackages}

\* four assets worth 1, 1, 1 and 29 of 32
FourAssetArgs ==
  [old_balances |-> PyList(<<PyDStr(<<"2", "9">>), PyDStr(<<"1">>), PyDStr(<<"1">>),
                             PyDStr(<<"1">>)>>),
   new_balances |-> PyList(<<PyDStr(<<"1">>), PyDStr(<<"1">>), PyDStr(<<"1">>),
                             PyDStr(<<"2", "9">>)>>),
   prices |-> PyList(<<PyDStr(<<"1">>), PyDStr(<<"1">>), PyDStr(<<"1">>), PyDStr(<<"1">>)>>),
   min_allocation_pct |-> PyDStr(<<"0">>),
   max_allocation_pct |-> PyDStr(<<"1", "0", "0">>),
   block |-> Return(1000)]

\* two assets, the first 60.004 % of the new total, the upper bound 60
JustAboveMaxArgs ==
  [old_balances |-> PyList(<<PyDStr(<<"9", "9", "9", "9">>),
                             PyDStr(<<"1", "5", "0", "0", "1">>)>>),
   new_balances |-> PyList(<<PyDStr(<<"1", "5", "0", "0", "1">>),
                             PyDStr(<<"9", "9", "9", "9">>)>>),
   prices |-> PyList(<<PyDStr(<<"1">>), PyDStr(<<"1">>)>>),
   min_allocation_pct |-> PyDStr(<<"0">>),
   max_allocation_pct |-> PyDStr(<<"6", "0">>),
   block |-> Return(1000)]

MorePlanCalls ==
  {[op |-> "create_rebalancing_plan", args |-> a, result |-> Pending] :
     a \in {FourAssetArgs, JustAboveMaxArgs}}

InitPlan ==
  /\ InitIdle
  /\ \/ /\ call \in PlanCalls \cup MorePlanCalls
        /\ \E id \in {0, 1} :
             agent_id = [a \in Agents |-> IF a = "rebalancer" THEN id ELSE 0]
     \/ /\ call \in LogicCalls
        /\ agent_id = [a \in Agents |-> 0]

CreateRebalancingPlan ==
  /\ call.op = "create_rebalancing_plan" /\ IsPending(call)
  /\ call' = [call EXCEPT !.result =
                create_rebalancing_plan(
                  call.args.old_balances, call.args.new_balances, call.args.prices,
                  OrDefault(call.args.min_allocation_pct, DefaultMinAllocationPct),
                  OrDefault(call.args.max_allocation_pct, DefaultMaxAllocationPct),
                  call.args.block, Self("rebalancer"))]
  /\ UNCHANGED <<others, agent_id, data_files, validation_files, build_files, registry, pc>>

VerifyRebalancingLogic ==
  /\ call.op = "_verify_rebalancing_logic" /\ IsPending(call)
  /\ call' = [call EXCEPT !.result =
                [score |-> _verify_rebalancing_logic(call.args.proof_package)]]
  /\ UNCHANGED <<others, agent_id, data_files, validation_files, build_files, registry, pc>>

NextPlan == CreateRebalancingPlan \/ VerifyRebalancingLogic

SpecPlan == InitPlan /\ [][NextPlan]_vars

(***************************************************************************)
(* The structure stage as an operation                                     *)
(***************************************************************************)
Numeral(cs) == PyDStr(cs)
Point3 == PyList(<<Numeral(<<"1">>), Numeral(<<"2">>), Numeral(<<"1">>)>>)
Point2 == PyList(<<Numeral(<<"1">>), Numeral(<<"2">>)>>)

PointValues    == {Point3, Point2, Numeral(<<"1", "2", "1">>), Omitted}
ProtocolValues == {PyStr("groth16"), PyStr("plonk"), Omitted}
CurveValues    == {PyStr("bn128"), PyStr("bls12"), Omitted}

MakeProof(a, b, c, protocol, curve) ==
  DictOf(<<<<"pi_a", a>>, <<"pi_b", b>>, <<"pi_c", c>>,
           <<"protocol", protocol>>, <<"curve", curve>>>>)

Proofs ==
  {MakeProof(a, b, c, protocol, curve) :
     a \in PointValues, b \in PointValues, c \in PointValues,
     protocol \in ProtocolValues, curve \in CurveValues}
  \cup {PyList(<<PyStr("pi_a"), PyStr("pi_b"), PyStr("pi_c"),
                 PyStr("protocol"), PyStr("curve")>>),
        PyList(<<PyStr("pi_a")>>), PyNone}

PublicInputsValues ==
  {PyList(<<Numeral(<<"1">>)>>), PyList(<<>>), Numeral(<<"1">>),
   PyDict(<<<<"value", Numeral(<<"1">>)>>>>)}

StructureCalls ==
  {[op |-> "_verify_proof_structure",
    args |-> [proof |-> proof, public_inputs |-> public_inputs],
    result |-> Pending] :
     proof \in Proofs, public_inputs \in PublicInputsValues}

\* the stage is called in any state of the validator's surroundings
InitStructure ==
  /\ InitRest
  /\ data_files = <<>>
  /\ validation_files = <<>>
  /\ registry = <<>>
  /\ pc = Idle
  /\ build_files \in SUBSET TempFiles
  /\ \E id \in {0, 2} :
       agent_id = [a \in Agents |-> IF a = "validator" THEN id ELSE 0]
  /\ call \in StructureCalls

VerifyProofStructure ==
  /\ call.op = "_verify_proof_structure" /\ IsPending(call)
  /\ call' = [call EXCEPT !.result =
                [score |-> _verify_proof_structure(call.args.proof,
                                                   call.args.public_inputs)]]
  /\ UNCHANGED <<others, agent_id, data_files, validation_files, build_files, registry, pc>>

NextStructure == VerifyProofStructure

SpecStructure == InitStructure /\ [][NextStructure]_vars

(***************************************************************************)
(* The cryptographic stage and validate_proof on a package as operations   *)
(***************************************************************************)
\* what the environment can do during a call of the verifier
VerifierRuns ==
  {[raised |-> "open", returncode |-> 0, ok_marker |-> FALSE],
   [raised |-> "run", returncode |-> 0, ok_marker |-> FALSE]}
  \cup {[raised |-> "none", returncode |-> rc, ok_marker |-> m] :
          rc \in {0, 1}, m \in BOOLEAN}

MakePlan(old, new, prices, min_pct, max_pct) ==
  DictOf(<<<<"old_balances", old>>, <<"new_balances", new>>, <<"prices", prices>>,
           <<"min_allocation_pct", min_pct>>, <<"max_allocation_pct", max_pct>>>>)

N9  == Numeral(<<"9">>)
N11 == Numeral(<<"1", "1">>)
N1  == Numeral(<<"1">>)

\* plans the logic stage scores 100, 70, 30, 50 and 0
PlanInBounds  == MakePlan(PyList(<<N9, N11>>), PyList(<<N11, N9>>), PyList(<<N1, N1>>),
                          Omitted, Omitted)
PlanOutOfBounds == MakePlan(PyList(<<N9, N11>>), PyList(<<N11, N9>>), PyList(<<N1, N1>>),
                            Numeral(<<"1", "0">>), Numeral(<<"4", "0">>))
PlanValueLost == MakePlan(PyList(<<N11>>), PyList(<<N9>>), PyList(<<N1>>),
                          Omitted, Omitted)
PlanMalformed == MakePlan(PyList(<<N9>>), PyList(<<Numeral(<<"x">>)>>), PyList(<<N1>>),
                          Omitted, Omitted)
PlanEmpty     == PyDict(<<>>)

PackagePlans ==
  {PlanInBounds, PlanOutOfBounds, PlanValueLost, PlanMalformed, PlanEmpty, Omitted}

\* proofs the structure stage scores 100, 60, 50 and 0, and an empty one
PackageProofs ==
  {MakeProof(Point3, Point3, Point3, PyStr("groth16"), PyStr("bn128")),
   MakeProof(Point3, Point2, Point3, PyStr("groth16"), PyStr("bn128")),
   MakeProof(Point3, Point3, Point3, PyStr("plonk"), PyStr("bn128")),
   MakeProof(Point3, Point3, Omitted, PyStr("groth16"), PyStr("bn128")),
   PyDict(<<>>), Omitted}

PackagePublicInputs == {PyList(<<N1>>), N1, PyList(<<>>), Omitted}

MakePackage(proof, public_inputs, plan) ==
  DictOf(<<<<"proof", proof>>, <<"public_inputs", public_inputs>>,
           <<"rebalancing_plan", plan>>>>)

Packages ==
  {MakePackage(proof, public_inputs, plan) :
     proof \in PackageProofs, public_inputs \in PackagePublicInputs,
     plan \in PackagePlans}

CryptoCalls ==
  {[op |-> "_verify_proof_cryptography",
    args |-> [proof |-> proof, public_inputs |-> PyList(<<N1>>), run |-> run],
    result |-> Pending] :
     proof \in PackageProofs \ {Omitted}, run \in VerifierRuns}

ValidateCalls ==
  {[op |-> "validate_proof",
    args |-> [data_hash |-> pkg, run |-> run, block |-> block],
    result |-> Pending] :
     pkg \in Packages, run \in VerifierRuns, block \in BlockAnswers}

InitValidate ==
  /\ InitRest
  /\ data_files = <<>>
  /\ validation_files = <<>>
  /\ registry = <<>>
  /\ pc = Idle
  /\ build_files \in {{}, TempFiles}
  /\ \E id \in {0, 2} :
       agent_id = [a \in Agents |-> IF a = "validator" THEN id ELSE 0]
  /\ call \in CryptoCalls \cup ValidateCalls

VerifyProofCryptography ==
  /\ call.op = "_verify_proof_cryptography" /\ IsPending(call)
  /\ call' = [call EXCEPT !.result =
                [score |-> _verify_proof_cryptography(
                             call.args.proof, call.args.public_inputs, call.args.run)]]
  /\ build_files' = TempFilesAfter(build_files, call.args.run)
  /\ UNCHANGED <<others, agent_id, data_files, validation_files, registry, pc>>

ValidatePackageGiven ==
  /\ call.op = "validate_proof" /\ IsPending(call)
  /\ LET r == validate_proof(call.args.data_hash, data_files, call.args.run,
                             call.args.block, Self("validator"))
     IN  /\ call' = [call EXCEPT !.result = r.ret]
         /\ build_files' = IF r.verified
                             THEN TempFilesAfter(build_files, call.args.run)
                             ELSE build_files
  /\ UNCHANGED <<others, agent_id, data_files, validation_files, registry, pc>>

NextValidate == VerifyProofCryptography \/ ValidatePackageGiven

SpecValidate == InitValidate /\ [][NextValidate]_vars

(***************************************************************************)
(* The agents at work: registration, submit_proof_for_validation step by   *)
(* step (another process can run between its file operations and its       *)
(* transaction), and validate_proof by hash or on a package                *)
(***************************************************************************)
MaxTxs == 2

Reversed(d) == PyDict([i \in 1..Len(d.dict) |-> d.dict[Len(d.dict) + 1 - i]])

GoodProof == MakeProof(Point3, Point3, Point3, PyStr("groth16"), PyStr("bn128"))

\* a plan of one asset that keeps its value
PlanKept == MakePlan(PyList(<<N9>>), PyList(<<N9>>), PyList(<<N1>>), Omitted, Omitted)

PkgA == MakePackage(GoodProof, PyList(<<N1>>), PlanKept)
\* the content of PkgA, every dict built in the opposite order
PkgAReordered ==
  Reversed(MakePackage(Reversed(GoodProof), PyList(<<N1>>), Reversed(PlanKept)))

SubmitPackages == {PkgA, PkgAReordered}

\* the hash texts a validator is asked to validate
KnownHashes == {Hex(ContentDigest(pkg)) : pkg \in SubmitPackages}

\* the verifier accepts or rejects
MainRuns ==
  {[raised |-> "none", returncode |-> 0, ok_marker |-> TRUE],
   [raised |-> "none", returncode |-> 1, ok_marker |-> FALSE]}

\* the constructor finds no registration, or the one of an earlier run
Init ==
  /\ InitIdle
  /\ agent_id \in {[a \in Agents |-> 0],
                   [a \in Agents |-> RegisteredId(a)]}
  /\ call = NoCall

SubmitArgs(p) == [proof_package |-> p.proof_package,
                  validator_agent_id |-> p.validator_agent_id]

\* submit_proof_for_validation(proof_package, validator_agent_id) up to and
\* with open(f"data/{data_hash}.json", "w"): the file exists and is empty
SubmitOpen ==
  /\ pc = Idle
  /\ \E proof_package \in SubmitPackages :
       LET data_hash == ContentDigest(proof_package)
       IN  /\ pc' = [at |-> "writing", proof_package |-> proof_package,
                     validator_agent_id |-> agent_id["validator"],
                     data_hash |-> data_hash]
           /\ data_files' = WithFile(data_files, Hex(data_hash),
                                     PartialFile(json_dumps(proof_package, FALSE, 2)))
  /\ UNCHANGED <<others, agent_id, validation_files, build_files, registry, call>>

\* json.dump(proof_package, f, indent=2) and the end of the with block
SubmitWrite ==
  /\ pc.at = "writing"
  /\ data_files' = WithFile(data_files, Hex(pc.data_hash),
                            CompleteFile(json_dumps(pc.proof_package, FALSE, 2)))
  /\ pc' = [pc EXCEPT !.at = "stored"]
  /\ UNCHANGED <<others, agent_id, validation_files, build_files, registry, call>>

\* the call is interrupted (the workflow is cancelled, the process is killed)
SubmitCancel ==
  /\ pc.at \in {"writing", "stored"}
  /\ pc' = Idle
  /\ call' = [op |-> "submit_proof_for_validation", args |-> SubmitArgs(pc),
              result |-> Raise("KeyboardInterrupt", "")]
  /\ UNCHANGED <<others, agent_id, data_files, validation_files, build_files, registry>>

\* request_validation(validator_agent_id, data_hash) and the return
SubmitRequest ==
  /\ pc.at = "stored"
  /\ pc' = Idle
  /\ \/ /\ agent_id["rebalancer"] = 0
        /\ call' = [op |-> "submit_proof_for_validation", args |-> SubmitArgs(pc),
                    result |-> Raise("ValueError", "Agent must be registered first")]
        /\ UNCHANGED registry
     \/ /\ agent_id["rebalancer"] # 0
        /\ call' = [op |-> "submit_proof_for_validation", args |-> SubmitArgs(pc),
                    result |-> Raise("ConnectionError", "rpc")]
        /\ UNCHANGED registry
     \/ /\ agent_id["rebalancer"] # 0
        /\ Len(registry) < MaxTxs
        /\ \E status \in {0, 1} :
             /\ registry' = Append(registry,
                                   [fn |-> "validationRequest",
                                    validator_agent_id |-> pc.validator_agent_id,
                                    server_agent_id |-> agent_id["rebalancer"],
                                    data_hash |-> pc.data_hash,
                                    status |-> status])
             /\ call' = [op |-> "submit_proof_for_validation", args |-> SubmitArgs(pc),
                         result |-> IF status = 1
                                      THEN Return([tx |-> Len(registry) + 1])
                                      ELSE Raise("Exception", "Validation request failed")]
  /\ UNCHANGED <<others, agent_id, data_files, validation_files, build_files>>

\* validate_proof(data_hash) by the validator, on a hash text or on a package
ValidateProof ==
  /\ \E data_hash \in KnownHashes \cup SubmitPackages, run \in MainRuns :
       LET block == Return(1000)
           r == validate_proof(data_hash, data_files, run, block, Self("validator"))
       IN  /\ call' = [op |-> "validate_proof",
                       args |-> [data_hash |-> data_hash, run |-> run, block |-> block],
                       result |-> r.ret]
           /\ build_files' = IF r.verified THEN TempFilesAfter(build_files, run)
                                           ELSE build_files
  /\ UNCHANGED <<others, agent_id, data_files, validation_files, registry, pc>>

Next ==
  \/ SubmitOpen
  \/ SubmitWrite
  \/ SubmitCancel
  \/ SubmitRequest
  \/ ValidateProof

Spec == Init /\ [][Next]_vars

(***************************************************************************)
(* Claims about the plan builder and the logic stage                       *)
(***************************************************************************)
\* the items of a Python list all are texts of digits
AllNumerals(xs, n) ==
  \A i \in 1..n : /\ xs[i].t = "dstr"
                  /\ Len(xs[i].dstr) > 0
                  /\ \A j \in 1..Len(xs[i].dstr) : IsDigit(xs[i].dstr[j])

\* the sum of bals[i] * prices[i] over the first n assets
RECURSIVE Sigma(_, _, _)
Sigma(bals, prices, n) ==
  IF n = 0 THEN 0
  ELSE Sigma(bals, prices, n - 1) + IntOfDigits(bals[n].dstr) * IntOfDigits(prices[n].dstr)

\* the totals of <<old, new>> over prices, when every paired text is a number
TotalsDefined(old, new, prices) ==
  /\ AllNumerals(old.list, MinOf(Len(old.list), Len(prices.list)))
  /\ AllNumerals(new.list, MinOf(Len(new.list), Len(prices.list)))
  /\ AllNumerals(prices.list, MinOf(Len(prices.list),
                                    IF Len(old.list) >= Len(new.list)
                                      THEN Len(old.list) ELSE Len(new.list)))
OldTotal(a) == Sigma(a.old_balances.list, a.prices.list,
                     MinOf(Len(a.old_balances.list), Len(a.prices.list)))
NewTotal(a) == Sigma(a.new_balances.list, a.prices.list,
                     MinOf(Len(a.new_balances.list), Len(a.prices.list)))

\* C2: whenever the totals sum(old[i]*price[i]) and sum(new[i]*price[i]) differ,
\* create_rebalancing_plan raises the value-preservation error and returns no
\* plan; a plan it returns carries old_total_value = new_total_value, both
\* equal to the recomputed sums.
C2_ValuePreservation ==
  Done(call, "create_rebalancing_plan") =>
    LET a == call.args
        r == call.result
        defined == TotalsDefined(a.old_balances, a.new_balances, a.prices)
    IN  /\ (defined /\ OldTotal(a) # NewTotal(a)) =>
             /\ ~r.ok
             /\ r.exc = "ValueError"
             /\ r.msg = "Portfolio value not preserved!"
        /\ r.ok =>
             /\ defined
             /\ DictGet(r.val, "old_total_value", PyNone) = PyNum(OldTotal(a))
             /\ DictGet(r.val, "new_total_value", PyNone) = PyNum(NewTotal(a))
             /\ OldTotal(a) = NewTotal(a)

\* create_rebalancing_plan was called with a gain of value and raised
C2_Witness ==
  /\ Done(call, "create_rebalancing_plan")
  /\ TotalsDefined(call.args.old_balances, call.args.new_balances, call.args.prices)
  /\ OldTotal(call.args) < NewTotal(call.args)
  /\ ~call.result.ok

\* an asset's exact share of the new total lies outside [min_pct, max_pct]
ExactlyOutside(value, new_total, min_pct, max_pct) ==
  IF new_total > 0
    THEN value * 100 < min_pct * new_total \/ value * 100 > max_pct * new_total
    ELSE 0 < min_pct \/ 0 > max_pct

\* the plan of a package whose three sequences are present and not empty
HasSequences(pkg) ==
  /\ pkg.t = "dict"
  /\ DictGet(pkg, "rebalancing_plan", PyNone).t = "dict"
  /\ \A k \in {"old_balances", "new_balances", "prices"} :
       LET x == DictGet(DictGet(pkg, "rebalancing_plan", PyNone), k, PyNone)
       IN  x.t = "list" /\ Len(x.list) > 0

\* the score the tiers of the specification give a package with sequences
TierScore(pkg) ==
  LET plan == DictGet(pkg, "rebalancing_plan", PyNone)
      a    == [old_balances |-> DictGet(plan, "old_balances", PyNone),
               new_balances |-> DictGet(plan, "new_balances", PyNone),
               prices |-> DictGet(plan, "prices", PyNone)]
      min_pct == IntOfDigits(DictGet(plan, "min_allocation_pct", PyDStr(<<"0">>)).dstr)
      max_pct == IntOfDigits(DictGet(plan, "max_allocation_pct",
                                     PyDStr(<<"1", "0", "0">>)).dstr)
      n == MinOf(Len(a.new_balances.list), Len(a.prices.list))
  IN  IF ~RebalancingLogicBody(pkg).ok THEN 50
      ELSE IF OldTotal(a) # NewTotal(a) THEN 30
      ELSE IF \E i \in 1..n :
                ExactlyOutside(IntOfDigits(a.new_balances.list[i].dstr)
                                 * IntOfDigits(a.prices.list[i].dstr),
                               NewTotal(a), min_pct, max_pct)
        THEN 70
      ELSE 100

\* C3: the logic stage returns 50 when the recomputation raises, else 30 when
\* the recomputed totals differ, else 70 when at least one asset's percentage
\* of the new total lies outside [minPct, maxPct], else 100 (stated for the
\* packages whose plan holds the three sequences, the ones the tiers are about).
C3_LogicTiers ==
  (Done(call, "_verify_rebalancing_logic") /\ HasSequences(call.args.proof_package))
    => call.result.score = TierScore(call.args.proof_package)

(***************************************************************************)
(* Claims about the structure stage                                        *)
(***************************************************************************)
\* the proof lacks the key
Missing(proof, key) == proof.t # "dict" \/ ~HasKey(proof, key)

\* a point that is an array of length 3
IsArray3(proof, key) ==
  LET x == DictGet(proof, key, PyNone) IN x.t = "list" /\ Len(x.list) = 3

WrongIdentifiers(proof) ==
  \/ DictGet(proof, "protocol", PyNone) # PyStr("groth16")
  \/ DictGet(proof, "curve", PyNone) # PyStr("bn128")

\* the tiers with the tier of the public inputs; with that tier left out
\* they are the tiers as first stated
StructureTiers(proof, public_inputs, with_public_inputs) ==
  IF \E key \in {"pi_a", "pi_b", "pi_c", "protocol", "curve"} : Missing(proof, key)
    THEN 0
  ELSE IF WrongIdentifiers(proof) THEN 50
  ELSE IF with_public_inputs /\ public_inputs.t # "list" THEN 50
  ELSE IF \E key \in {"pi_a", "pi_b", "pi_c"} : ~IsArray3(proof, key) THEN 60
  ELSE 100

\* C4 (amended): _verify_proof_structure returns 0 if any of pi_a, pi_b, pi_c,
\* protocol, curve is missing; otherwise 50 if protocol is not groth16 or
\* curve is not bn128 or the public inputs are not a list; otherwise 60 if
\* any of pi_a, pi_b, pi_c is not an array of length 3; otherwise 100; the
\* result is one of 0, 50, 60, 100 and depends only on the two arguments.
C4_StructureTiersAmended ==
  Done(call, "_verify_proof_structure") =>
    /\ call.result.score = StructureTiers(call.args.proof, call.args.public_inputs, TRUE)
    /\ call.result.score \in {0, 50, 60, 100}

\* C4 (as stated): the tiers are missing key 0, wrong protocol or curve 50,
\* point not of length 3 60, else 100, the first failing tier winning.
C4_StructureTiers ==
  Done(call, "_verify_proof_structure") =>
    call.result.score = StructureTiers(call.args.proof, call.args.public_inputs, FALSE)

\* a groth16/bn128 proof with a short point and public inputs that are a text
\* scored 50
C4_Witness ==
  /\ Done(call, "_verify_proof_structure")
  /\ \A key \in {"pi_a", "pi_b", "pi_c", "protocol", "curve"} :
       ~Missing(call.args.proof, key)
  /\ ~WrongIdentifiers(call.args.proof)
  /\ ~IsArray3(call.args.proof, "pi_b")
  /\ call.args.public_inputs.t # "list"
  /\ call.result.score = 50

(***************************************************************************)
(* Claims about the cryptographic stage and validate_proof                 *)
(***************************************************************************)
\* validate_proof returned a result with a validation package
HasReport(c) == Done(c, "validate_proof") /\ c.result.ok
                  /\ HasKey(c.result.val, "validation_package")

ValidationPackageOf(c) == DictGet(c.result.val, "validation_package", PyNone)
ReportOf(c) == DictGet(ValidationPackageOf(c), "validation_report", PyNone)
StructureOf(c) == DictGet(ReportOf(c), "structure_score", PyNone).int
CryptoOf(c)    == DictGet(ReportOf(c), "cryptographic_score", PyNone).int
LogicOf(c)     == DictGet(ReportOf(c), "logic_score", PyNone).int
OverallOf(c)   == DictGet(ReportOf(c), "overall_score", PyNone).int

\* the verifier reported success
ReportedValid(run) == run.raised = "none" /\ run.returncode = 0 /\ run.ok_marker

\* the package reaches the stages
ReachesStages(pkg) ==
  /\ pkg.t = "dict"
  /\ Truthy(DictGet(pkg, "proof", PyNone))
  /\ Truthy(DictGet(pkg, "public_inputs", PyNone))

C6_AggregateScore ==
  HasReport(call) =>
    LET overall == (2 * StructureOf(call) + 5 * CryptoOf(call) + 3 * LogicOf(call)) \div 10
    IN  /\ StructureOf(call) \in {0, 50, 60, 100}
        /\ CryptoOf(call) \in {0, 50, 100}
        /\ LogicOf(call) \in {0, 30, 50, 70, 100}
        /\ OverallOf(call) = overall
        /\ overall \in 0..100
        /\ DictGet(call.result.val, "score", PyNone) = PyNum(overall)
        /\ DictGet(ValidationPackageOf(call), "validation_score", PyNone) = PyNum(overall)

\* structure 60, crypto 50, logic 70 gave 58
C6_Witness ==
  /\ HasReport(call)
  /\ StructureOf(call) = 60 /\ CryptoOf(call) = 50 /\ LogicOf(call) = 70
  /\ DictGet(call.result.val, "score", PyNone) = PyNum(58)

\* C7: in every validation result proof_valid is true iff the crypto score is
\* 100, meets_constraints is true iff the logic score is at least 80, and
\* is_valid is true iff the overall score is at least 70; three scores of 100
\* give overall 100 and the three flags true.
C7_DerivedFlags ==
  HasReport(call) =>
    /\ DictGet(ReportOf(call), "proof_valid", PyNone) = PyBool(CryptoOf(call) = 100)
    /\ DictGet(ReportOf(call), "meets_constraints", PyNone) = PyBool(LogicOf(call) >= 80)
    /\ DictGet(call.result.val, "is_valid", PyNone) = PyBool(OverallOf(call) >= 70)
    /\ (StructureOf(call) = 100 /\ CryptoOf(call) = 100 /\ LogicOf(call) = 100) =>
         /\ OverallOf(call) = 100
         /\ DictGet(ReportOf(call), "proof_valid", PyNone) = PyBool(TRUE)
         /\ DictGet(ReportOf(call), "meets_constraints", PyNone) = PyBool(TRUE)
         /\ DictGet(call.result.val, "is_valid", PyNone) = PyBool(TRUE)

\* a result with logic score 70: the constraints are not met
C7_Witness ==
  /\ HasReport(call)
  /\ LogicOf(call) = 70
  /\ CryptoOf(call) = 100
  /\ DictGet(ReportOf(call), "meets_constraints", PyNone) = PyBool(FALSE)
  /\ DictGet(ReportOf(call), "proof_valid", PyNone) = PyBool(TRUE)

(***************************************************************************)
(* Claims about publication, hashing and lookup                            *)
(***************************************************************************)
\* a package is published under the hash text: its file is completely written
Published(files, name) == name \in DOMAIN files /\ files[name].written = "all"

\* the SHA-256 of the canonical (sorted-key) serialization, in lowercase hex
CanonicalHash(pkg) == PyHex(sha256(json_dumps(pkg, TRUE, 0)))

\* the same field values at every nesting level, whatever the order of keys
RECURSIVE SameContent(_, _)
SameContent(x, y) ==
  IF x.t # y.t THEN FALSE
  ELSE IF x.t = "dict"
    THEN /\ Len(x.dict) = Len(y.dict)
         /\ \A i \in 1..Len(x.dict) :
              /\ HasKey(y, x.dict[i][1])
              /\ SameContent(x.dict[i][2], DictGet(y, x.dict[i][1], PyNone))
  ELSE IF x.t = "list"
    THEN /\ Len(x.list) = Len(y.list)
         /\ \A i \in 1..Len(x.list) : SameContent(x.list[i], y.list[i])
  ELSE x = y

\* C1: no mined validation request references a hash whose package is absent
\* from the proof store or only partially written there.
C1_PublishBeforeRequest ==
  \A i \in 1..Len(registry) :
    (registry[i].fn = "validationRequest" /\ registry[i].status = 1)
      => Published(data_files, Hex(registry[i].data_hash))

\* C8: the hash of the package being submitted and of every request sent is
\* the SHA-256 of the package's canonical serialization, the store key is its
\* lowercase hex, and every entry of the proof store holds a package whose
\* canonical hash is the entry's key.
C8_HashIdentity ==
  /\ pc.at # "idle" =>
       /\ Hex(pc.data_hash) = CanonicalHash(pc.proof_package)
       /\ Hex(pc.data_hash) \in DOMAIN data_files
  /\ (Done(call, "submit_proof_for_validation") /\ call.result.ok) =>
       /\ registry[call.result.val.tx].fn = "validationRequest"
       /\ Hex(registry[call.result.val.tx].data_hash)
            = CanonicalHash(call.args.proof_package)
  /\ \A name \in DOMAIN data_files :
       /\ Published(data_files, name)
       /\ CanonicalHash(json_loads(data_files[name].text)) = name

\* C9: packages with the same field values at every level and different key
\* orders get the same content hash: the producer stores them under one name,
\* and the validator given one of them reports the name the producer stored
\* the other under.
C9_OrderIndependentHash ==
  /\ \A n1 \in DOMAIN data_files, n2 \in DOMAIN data_files :
       SameContent(json_loads(data_files[n1].text), json_loads(data_files[n2].text))
         => n1 = n2
  /\ pc.at # "idle" =>
       \A n \in DOMAIN data_files :
         SameContent(json_loads(data_files[n].text), pc.proof_package)
           => n = Hex(pc.data_hash)
  /\ (HasReport(call) /\ call.args.data_hash.t = "dict") =>
       \A n \in DOMAIN data_files :
         SameContent(json_loads(data_files[n].text), call.args.data_hash)
           => DictGet(ValidationPackageOf(call), "data_hash", PyNone) = n

\* the store holds a package and the validator was given the same content in
\* another key order and reported the stored name
C9_Witness ==
  /\ HasReport(call) /\ call.args.data_hash.t = "dict"
  /\ \E n \in DOMAIN data_files :
       /\ Published(data_files, n)
       /\ json_loads(data_files[n].text) # call.args.data_hash
       /\ SameContent(json_loads(data_files[n].text), call.args.data_hash)
       /\ DictGet(ValidationPackageOf(call), "data_hash", PyNone) = n

\* C10: validate_proof called with a hash under which no package has been
\* published returns the result 'Proof package not found' with score 0 and
\* validation_complete false, and changes no store and sends no transaction;
\* called with a hash under which a package is published it validates that
\* package.
C10_NotFoundRecoverable ==
  [][(call' # call /\ call'.op = "validate_proof"
        /\ call'.args.data_hash.t = "hexstr") =>
       IF Published(data_files, call'.args.data_hash)
         THEN /\ HasReport(call')
              /\ DictGet(ValidationPackageOf(call'), "data_hash", PyNone)
                   = call'.args.data_hash
              /\ DictGet(ValidationPackageOf(call'), "original_proof", PyNone)
                   = json_loads(data_files[call'.args.data_hash].text)
         ELSE /\ call'.result.ok
              /\ call'.result.val = ErrorResult("Proof package not found")
              /\ UNCHANGED <<data_files, validation_files, registry, agent_id>>]_vars

(***************************************************************************)
(* ClientAgent: feedback records, reputation summary, quality rubric       *)
(***************************************************************************)
\* a float, as a Python value
PyFloat(x) == [t |-> "float", float |-> x]

\* a slip: the new record is put in front
FeedbackPrepended(history, feedback_data) == <<feedback_data>> \o history

\* line 67: self.feedback_history.append(feedback_data)
FeedbackAppended(history, feedback_data) == Append(history, feedback_data)

\* submit_feedback(server_agent_id, score, comment); now is int(time.time()).
\* ret is what the call returns or raises, feedback_history the list after it
submit_feedback(self, history, server_agent_id, score, comment, now) ==
  IF ~Truthy(self.agent_id)
    THEN [ret |-> Raise("ValueError", "Client agent must be registered first"),
          feedback_history |-> history]
  ELSE IF score < 0 \/ score > 100
    THEN [ret |-> Raise("ValueError", "Score must be between 0 and 100"),
          feedback_history |-> history]
  ELSE LET feedback_data ==
             PyDict(<<<<"client_id", self.agent_id>>,
                      <<"server_id", PyNum(server_agent_id)>>,
                      <<"score", PyNum(score)>>,
                      <<"comment", comment>>,
                      <<"timestamp", PyNum(now)>>,
                      <<"client_domain", self.agent_domain>>>>)
       IN  [ret |-> Return(feedback_data),
            feedback_history |-> FeedbackAppended(history, feedback_data)]

\* get_feedback_history()
get_feedback_history(history) == PyList(history)

RECURSIVE SumScores(_)
SumScores(fs) ==
  IF fs = <<>> THEN 0
  ELSE DictGet(fs[1], "score", PyNone).int + SumScores(Tail(fs))

\* a slip: every record counts, whatever its server
FeedbackOfAnyServer(f, server_agent_id) == TRUE

\* line 141: f["server_id"] == server_agent_id
FeedbackIsFor(f, server_agent_id) ==
  DictGet(f, "server_id", PyNone) = PyNum(server_agent_id)

\* a slip: the first record of the server is reported as the last
FirstOf(server_feedback) == server_feedback[1]

\* line 152: server_feedback[-1]
LastOf(server_feedback) == server_feedback[Len(server_feedback)]

\* check_rebalancer_reputation(server_agent_id)
check_rebalancer_reputation(history, server_agent_id) ==
  LET server_feedback ==
        SelectSeq(history, LAMBDA f : FeedbackIsFor(f, server_agent_id))
  IN  IF Len(server_feedback) > 0
        THEN PyDict(<<<<"server_id", PyNum(server_agent_id)>>,
                      <<"feedback_count", PyNum(Len(server_feedback))>>,
                      <<"average_score",
                        PyFloat(FDiv(SumScores(server_feedback), Len(server_feedback)))>>,
                      <<"last_feedback", LastOf(server_feedback)>>>>)
        ELSE PyDict(<<<<"server_id", PyNum(server_agent_id)>>,
                      <<"feedback_count", PyNum(0)>>,
                      <<"average_score", PyNum(0)>>,
                      <<"last_feedback", PyNone>>>>)

\* a[key] for a text key: the value of a dict's key; other values raise
Subscript(a, key) ==
  IF a.t = "dict"
    THEN IF HasKey(a, key) THEN Return(DictGet(a, key, PyNone))
                           ELSE Raise("KeyError", key)
  ELSE Raise("TypeError", "indices must be integers or not subscriptable")

\* a slip: the bonus is given up to and with the limit
MaxAllocBelowOrAt(max_alloc, limit) == max_alloc <= 100 * limit

\* line 117: max_alloc < 50, max_alloc in hundredths
MaxAllocBelow(max_alloc, limit) == max_alloc < 100 * limit

\* lines 113-118: the points for a diversified portfolio; a percentage that
\* is no number raises when it is compared
DiversityBonus(allocations) ==
  IF ~Truthy(allocations) THEN Return(0)
  ELSE LET it == PyIter(allocations)
       IN  IF ~it.ok THEN it
           ELSE LET pcts == [i \in 1..Len(it.val) |-> Subscript(it.val[i], "allocation_pct")]
                IN  IF \E i \in 1..Len(pcts) : ~pcts[i].ok
                      THEN pcts[SetMin({i \in 1..Len(pcts) : ~pcts[i].ok})]
                    ELSE IF \E i \in 1..Len(pcts) : pcts[i].val.t \notin {"float2", "int"}
                      THEN Raise("TypeError", "'<' not supported")
                    ELSE LET max_alloc == SetMax({EntryPct(it.val[i]) : i \in 1..Len(pcts)})
                         IN  Return(IF MaxAllocBelow(max_alloc, 50) THEN 10 ELSE 0)

\* evaluate_rebalancing_quality(proof_package)
evaluate_rebalancing_quality(proof_package) ==
  LET has_proof  == Contains(proof_package, "proof")
      has_public == Contains(proof_package, "public_inputs")
      has_plan   == Contains(proof_package, "rebalancing_plan")
  IN  IF ~has_proof.ok THEN has_proof
      ELSE IF proof_package.t # "dict"
        THEN Raise("AttributeError", "object has no attribute 'get'")
      ELSE
        LET rebalancing_plan == DictGet(proof_package, "rebalancing_plan", PyDict(<<>>))
            has_allocs == Contains(rebalancing_plan, "new_allocations")
        IN  IF ~has_allocs.ok THEN has_allocs
            ELSE IF rebalancing_plan.t # "dict"
              THEN Raise("AttributeError", "object has no attribute 'get'")
            ELSE
              LET allocations == DictGet(rebalancing_plan, "new_allocations", PyList(<<>>))
                  bonus == DiversityBonus(allocations)
                  score == 50 + (IF has_proof.val THEN 15 ELSE 0)
                              + (IF has_public.val THEN 10 ELSE 0)
                              + (IF has_plan.val THEN 15 ELSE 0)
                              + (IF has_allocs.val THEN 10 ELSE 0)
              IN  IF ~bonus.ok THEN bonus
                  ELSE Return(MinOf(score + bonus.val, 100))

(***************************************************************************)
(* The calls of the end-to-end workflow, each taken as a whole             *)
(* chain: what happens to the transaction the call sends: "unreachable"    *)
(* (the node does not answer), "reverted" (receipt.status 0), "mined"      *)
(***************************************************************************)
ChainAnswers == {"unreachable", "reverted", "mined"}

\* the transactions a call had mined, as a list
Mined(chain, tx) ==
  IF chain = "unreachable" THEN <<>>
  ELSE <<[tx EXCEPT !.status = IF chain = "mined" THEN 1 ELSE 0]>>

\* a slip: the guard of line 133 is left out
NeverRegistered(id) == FALSE

\* line 133: if self.agent_id
AlreadyRegistered(id) == id # 0

\* register_agent(); id is self.agent_id (0: None), env what the call meets:
\* balance_ok, chain, event_id (the AgentRegistered event's agentId, 0 when
\* the logs give none), resolved_id (resolveByAddress, 0 when unknown)
register_agent(id, domain, env) ==
  IF AlreadyRegistered(id) THEN [ret |-> Return(id), agent_id |-> id, txs |-> <<>>]
  ELSE IF ~env.balance_ok
    THEN [ret |-> Raise("ValueError", "Insufficient balance"), agent_id |-> id, txs |-> <<>>]
  ELSE
    LET txs == Mined(env.chain, [fn |-> "newAgent", agent_domain |-> domain, status |-> 0])
    IN  IF env.chain = "unreachable"
          THEN [ret |-> Raise("ConnectionError", "rpc"), agent_id |-> id, txs |-> txs]
        ELSE IF env.chain = "reverted"
          THEN [ret |-> Raise("Exception", "Agent registration failed"),
                agent_id |-> id, txs |-> txs]
        ELSE IF env.event_id > 0
          THEN [ret |-> Return(env.event_id), agent_id |-> env.event_id, txs |-> txs]
        ELSE IF env.resolved_id > 0
          THEN [ret |-> Return(env.resolved_id), agent_id |-> env.resolved_id, txs |-> txs]
        ELSE [ret |-> Raise("Exception",
                            "Registration succeeded but couldn't determine agent ID"),
              agent_id |-> id, txs |-> txs]

\* str(n) for n >= 0
RECURSIVE DigitsOf(_)
DigitsOf(n) ==
  IF n < 10 THEN <<DigitChars[n + 1]>>
  ELSE Append(DigitsOf(n \div 10), DigitChars[(n % 10) + 1])

PyStrOf(v) == IF v.t = "int" THEN PyDStr(DigitsOf(v.int)) ELSE v

\* the files snarkjs leaves in build/
ProverFiles == {"build/witness.wtns", "build/proof.json", "build/public.json"}

\* generate_zk_proof(rebalancing_plan); prover is what the call meets:
\* outcome "no_build_dir" (the input file cannot be written), "not_installed"
\* (subprocess.run raises), "failed" (snarkjs exits non-zero), "proved" with
\* the proof and the public inputs snarkjs wrote
generate_zk_proof(rebalancing_plan, self, prover) ==
  LET Key(k) == Subscript(rebalancing_plan, k)
      needed == <<"old_balances", "new_balances", "prices", "new_total_value",
                  "min_allocation_pct", "max_allocation_pct">>
      bad    == {i \in 1..Len(needed) : ~Key(needed[i]).ok}
  IN  IF bad # {} THEN [ret |-> Key(needed[SetMin(bad)]), files |-> {}]
      ELSE
        LET circuit_input ==
              PyDict(<<<<"oldBalances", Key("old_balances").val>>,
                       <<"newBalances", Key("new_balances").val>>,
                       <<"prices", Key("prices").val>>,
                       <<"totalValueCommitment", PyStrOf(Key("new_total_value").val)>>,
                       <<"minAllocationPct", Key("min_allocation_pct").val>>,
                       <<"maxAllocationPct", Key("max_allocation_pct").val>>>>)
            timestamp == Subscript(rebalancing_plan, "timestamp")
        IN  CASE prover.outcome = "no_build_dir" ->
                   [ret |-> Raise("FileNotFoundError", "build/temp_input.json"),
                    files |-> {}]
              [] prover.outcome = "not_installed" ->
                   [ret |-> Raise("FileNotFoundError", "snarkjs"), files |-> {}]
              [] prover.outcome = "failed" ->
                   [ret |-> Raise("Exception", "ZK proof generation failed"),
                    files |-> {}]
              [] OTHER ->
                   IF ~timestamp.ok THEN [ret |-> timestamp, files |-> ProverFiles]
                   ELSE
                   [ret |-> Return(PyDict(
                      <<<<"proof", prover.proof>>,
                        <<"public_inputs", prover.public_inputs>>,
                        <<"rebalancing_plan", rebalancing_plan>>,
                        <<"circuit_input", circuit_input>>,
                        <<"metadata",
                          PyDict(<<<<"proof_system", PyStr("groth16")>>,
                                   <<"curve", PyStr("bn128")>>,
                                   <<"circuit", PyStr("rebalancing")>>,
                                   <<"agent_id", self.agent_id>>,
                                   <<"timestamp", timestamp.val>>>>)>>>>)),
                    files |-> ProverFiles]

\* submit_proof_for_validation(proof_package, validator_agent_id) run to its
\* end: the package is stored, then the request is sent
submit_proof_for_validation(proof_package, validator_agent_id, self, files, chain) ==
  LET data_hash == ContentDigest(proof_package)
      stored    == WithFile(files, Hex(data_hash),
                            CompleteFile(json_dumps(proof_package, FALSE, 2)))
      tx        == [fn |-> "validationRequest",
                    validator_agent_id |-> validator_agent_id,
                    server_agent_id |-> self.agent_id.int,
                    data_hash |-> data_hash, status |-> 0]
  IN  IF ~Truthy(self.agent_id)
        THEN [ret |-> Raise("ValueError", "Agent must be registered first"),
              data_files |-> stored, txs |-> <<>>]
      ELSE [ret |-> CASE chain = "unreachable" -> Raise("ConnectionError", "rpc")
                      [] chain = "reverted" -> Raise("Exception", "Validation request failed")
                      [] OTHER -> Return(Hex(sha256(tx))),
            data_files |-> stored, txs |-> Mined(chain, tx)]

\* ValidatorAgent.submit_validation_response(validation_package) run to its
\* end: the validation package is stored, then the response is sent
submit_validation_response(validation_package, self, files, chain) ==
  LET hash_text == Subscript(validation_package, "data_hash")
      data_hash == IF hash_text.ok THEN FromHex(hash_text.val) ELSE hash_text
      score     == Subscript(validation_package, "validation_score")
  IN  IF ~data_hash.ok THEN [ret |-> data_hash, validation_files |-> files, txs |-> <<>>]
      ELSE IF ~score.ok THEN [ret |-> score, validation_files |-> files, txs |-> <<>>]
      ELSE
        LET stored == WithFile(files, hash_text.val,
                               CompleteFile(json_dumps(validation_package, FALSE, 2)))
            tx     == [fn |-> "validationResponse", data_hash |-> data_hash.val,
                       response |-> score.val, status |-> 0]
        IN  IF ~Truthy(self.agent_id)
              THEN [ret |-> Raise("ValueError", "Agent must be registered first"),
                    validation_files |-> stored, txs |-> <<>>]
            ELSE [ret |-> CASE chain = "unreachable" -> Raise("ConnectionError", "rpc")
                            [] chain = "reverted" ->
                                 Raise("Exception", "Validation response submission failed")
                            [] OTHER -> Return(Hex(sha256(tx))),
                  validation_files |-> stored, txs |-> Mined(chain, tx)]

\* authorize_client_feedback(client_agent_id)
authorize_client_feedback(client_agent_id, self, chain) ==
  LET tx == [fn |-> "acceptFeedback", client_agent_id |-> client_agent_id,
             server_agent_id |-> self.agent_id, status |-> 0]
  IN  IF ~Truthy(self.agent_id)
        THEN [ret |-> Raise("ValueError", "Rebalancer agent must be registered first"),
              txs |-> <<>>]
      ELSE [ret |-> CASE chain = "unreachable" ->
                           Raise("Exception", "Client feedback authorization failed")
                      [] chain = "reverted" ->
                           Raise("Exception", "Client feedback authorization failed")
                      [] OTHER -> Return(Hex(sha256(tx))),
            txs |-> Mined(chain, tx)]

(***************************************************************************)
(* test_zk_rebalancing_e2e: the workflow from the registrations on         *)
(***************************************************************************)
WorkflowSteps ==
  <<"register_rebalancer", "register_validator", "register_client",
    "create_rebalancing_plan", "generate_zk_proof", "submit_proof_for_validation",
    "validate_proof", "submit_validation_response", "authorize_client_feedback",
    "evaluate_rebalancing_quality", "submit_feedback", "check_rebalancer_reputation">>

RegisterEnvs(a) ==
  {[balance_ok |-> TRUE, chain |-> "mined", event_id |-> RegisteredId(a), resolved_id |-> RegisteredId(a)],
   [balance_ok |-> TRUE, chain |-> "mined", event_id |-> 0, resolved_id |-> RegisteredId(a)],
   [balance_ok |-> TRUE, chain |-> "mined", event_id |-> 0, resolved_id |-> 0],
   [balance_ok |-> TRUE, chain |-> "reverted", event_id |-> 0, resolved_id |-> 0],
   [balance_ok |-> TRUE, chain |-> "unreachable", event_id |-> 0, resolved_id |-> 0],
   [balance_ok |-> FALSE, chain |-> "mined", event_id |-> 0, resolved_id |-> 0]}

\* lines 100-106: the portfolio of the test, and one that loses value
TestPlanArgs ==
  LET N(cs) == Numeral(cs)
      hundred == N(<<"1", "0", "0">>)
      old == PyList(<<N(<<"1", "0", "0", "0">>), N(<<"1", "0", "0", "0">>),
                      N(<<"1", "0", "0", "0">>), N(<<"7", "5", "0">>)>>)
      new == PyList(<<N(<<"8", "0", "0">>), N(<<"8", "0", "0">>),
                      N(<<"1", "2", "0", "0">>), N(<<"9", "5", "0">>)>>)
      prices == PyList(<<hundred, hundred, hundred, hundred>>)
  IN  {[old_balances |-> old, new_balances |-> n, prices |-> prices,
        min_allocation_pct |-> N(<<"1", "0">>), max_allocation_pct |-> N(<<"4", "0">>)] :
         n \in {new, old, PyList(<<N(<<"8", "0", "0">>)>>)}}

Provers ==
  {[outcome |-> o] : o \in {"no_build_dir", "not_installed", "failed"}}
  \cup {[outcome |-> "proved", proof |-> GoodProof, public_inputs |-> pi] :
          pi \in {PyList(<<N1>>), PyList(<<>>)}}

\* the clock's readings, int(time.time())
ClockReadings == {999, 1000}

\* a slip: the workflow goes on after a step that failed
StatusWhateverHappened(ok, last) == IF last /\ ok THEN "done" ELSE "running"

\* an exception leaves test_zk_rebalancing_e2e; after the last line it returns
StatusAfter(ok, last) ==
  IF ~ok THEN "failed" ELSE IF last THEN "done" ELSE "running"

\* the workflow after its current step ended, well (ok) or with an exception
AfterStep(w, ok) ==
  [w EXCEPT !.at = IF ok THEN @ + 1 ELSE @,
            !.status = StatusAfter(ok, w.at = Len(WorkflowSteps)),
            !.trail = Append(@, [step |-> WorkflowSteps[w.at], ok |-> ok])]

AtStep(name) == workflow.status = "running" /\ WorkflowSteps[workflow.at] = name

InitWorkflow ==
  /\ data_files = <<>>
  /\ validation_files = <<>>
  /\ build_files = {}
  /\ registry = <<>>
  /\ pc = Idle
  /\ feedback_history = <<>>
  /\ temp_text = <<>>
  /\ instances = <<>>
  /\ call = NoCall
  /\ agent_id \in {[a \in Agents |-> IF a \in S THEN RegisteredId(a) ELSE 0] : S \in SUBSET Agents}
  /\ workflow = [at |-> 1, status |-> "running", trail |-> <<>>,
                 rebalancing_plan |-> PyNone, proof_package |-> PyNone,
                 validation_result |-> PyNone, quality_score |-> PyNone]

\* lines 83-89: rebalancer.register_agent(), validator.register_agent(),
\* client.register_agent()
WorkflowRegister(a) ==
  /\ AtStep("register_" \o a)
  /\ \E env \in RegisterEnvs(a) :
       LET r == register_agent(agent_id[a], AgentDomain(a), env)
       IN  /\ agent_id' = [agent_id EXCEPT ![a] = r.agent_id]
           /\ registry' = registry \o r.txs
           /\ call' = [op |-> "register_agent", args |-> [agent |-> a], result |-> r.ret]
           /\ workflow' = AfterStep(workflow, r.ret.ok)
  /\ UNCHANGED <<data_files, validation_files, build_files, pc, feedback_history, temp_text, instances>>

\* lines 100-106: rebalancer.create_rebalancing_plan(...)
WorkflowCreatePlan ==
  /\ AtStep("create_rebalancing_plan")
  /\ \E args \in TestPlanArgs, block \in BlockAnswers :
     \E r \in {create_rebalancing_plan(args.old_balances, args.new_balances, args.prices,
                                       args.min_allocation_pct, args.max_allocation_pct,
                                       block, Self("rebalancer"))} :
           /\ call' = [op |-> "create_rebalancing_plan", args |-> args, result |-> r]
           /\ workflow' = [AfterStep(workflow, r.ok) EXCEPT
                             !.rebalancing_plan = IF r.ok THEN r.val ELSE @]
  /\ UNCHANGED <<agent_id, data_files, validation_files, build_files, registry, pc, feedback_history, temp_text, instances>>

\* lines 114-117: rebalancer.generate_zk_proof(rebalancing_plan) and the
\* prints that read the package
WorkflowGenerateProof ==
  /\ AtStep("generate_zk_proof")
  /\ \E prover \in Provers :
       LET r == generate_zk_proof(workflow.rebalancing_plan, Self("rebalancer"), prover)
       IN  /\ call' = [op |-> "generate_zk_proof", args |-> [prover |-> prover],
                       result |-> r.ret]
           /\ build_files' = build_files \cup r.files
           /\ workflow' = [AfterStep(workflow, r.ret.ok) EXCEPT
                             !.proof_package = IF r.ret.ok THEN r.ret.val ELSE @]
  /\ UNCHANGED <<agent_id, data_files, validation_files, registry, pc, feedback_history, temp_text, instances>>

\* lines 124-127: rebalancer.submit_proof_for_validation(proof_package,
\* validator.agent_id)
WorkflowSubmitProof ==
  /\ AtStep("submit_proof_for_validation")
  /\ \E chain \in ChainAnswers :
       LET r == submit_proof_for_validation(workflow.proof_package, agent_id["validator"],
                                            Self("rebalancer"), data_files, chain)
       IN  /\ call' = [op |-> "submit_proof_for_validation",
                       args |-> [proof_package |-> workflow.proof_package,
                                 validator_agent_id |-> agent_id["validator"]],
                       result |-> r.ret]
           /\ data_files' = r.data_files
           /\ registry' = registry \o r.txs
           /\ workflow' = AfterStep(workflow, r.ret.ok)
  /\ UNCHANGED <<agent_id, validation_files, build_files, pc, feedback_history, temp_text, instances>>

\* lines 135-137: validator.validate_proof(proof_package) and the prints of
\* validation_result['is_valid'] and validation_result['score']
WorkflowValidate ==
  /\ AtStep("validate_proof")
  /\ \E run \in MainRuns, block \in BlockAnswers :
     \E r \in {validate_proof(workflow.proof_package, data_files, run, block,
                              Self("validator"))} :
       LET printed == r.ret.ok /\ Subscript(r.ret.val, "is_valid").ok
                               /\ Subscript(r.ret.val, "score").ok
       IN  /\ call' = [op |-> "validate_proof",
                       args |-> [data_hash |-> workflow.proof_package, run |-> run,
                                 block |-> block],
                       result |-> r.ret]
           /\ build_files' = IF r.verified THEN TempFilesAfter(build_files, run)
                                           ELSE build_files
           /\ workflow' = [AfterStep(workflow, printed) EXCEPT
                             !.validation_result = IF r.ret.ok THEN r.ret.val ELSE @]
  /\ UNCHANGED <<agent_id, data_files, validation_files, registry, pc, feedback_history, temp_text, instances>>

\* lines 144-146: validator.submit_validation_response(
\* validation_result['validation_package'])
WorkflowSubmitResponse ==
  /\ AtStep("submit_validation_response")
  /\ \E chain \in ChainAnswers :
       LET package == Subscript(workflow.validation_result, "validation_package")
           r == submit_validation_response(package.val, Self("validator"),
                                           validation_files, chain)
       IN  IF ~package.ok
             THEN /\ call' = [op |-> "submit_validation_response", args |-> <<>>,
                              result |-> package]
                  /\ workflow' = AfterStep(workflow, FALSE)
                  /\ UNCHANGED <<validation_files, registry>>
             ELSE /\ call' = [op |-> "submit_validation_response",
                              args |-> [validation_package |-> package.val],
                              result |-> r.ret]
                  /\ validation_files' = r.validation_files
                  /\ registry' = registry \o r.txs
                  /\ workflow' = AfterStep(workflow, r.ret.ok)
  /\ UNCHANGED <<agent_id, data_files, build_files, pc, feedback_history, temp_text, instances>>

\* line 154: rebalancer.authorize_client_feedback(client.agent_id)
WorkflowAuthorize ==
  /\ AtStep("authorize_client_feedback")
  /\ \E chain \in ChainAnswers :
       LET r == authorize_client_feedback(Self("client").agent_id, Self("rebalancer"), chain)
       IN  /\ call' = [op |-> "authorize_client_feedback",
                       args |-> [client_agent_id |-> Self("client").agent_id],
                       result |-> r.ret]
           /\ registry' = registry \o r.txs
           /\ workflow' = AfterStep(workflow, r.ret.ok)
  /\ UNCHANGED <<agent_id, data_files, validation_files, build_files, pc, feedback_history, temp_text, instances>>

\* line 162: client.evaluate_rebalancing_quality(proof_package)
WorkflowEvaluate ==
  /\ AtStep("evaluate_rebalancing_quality")
  /\ LET r == evaluate_rebalancing_quality(workflow.proof_package)
     IN  /\ call' = [op |-> "evaluate_rebalancing_quality",
                     args |-> [proof_package |-> workflow.proof_package], result |-> r]
         /\ workflow' = [AfterStep(workflow, r.ok) EXCEPT
                           !.quality_score = IF r.ok THEN PyNum(r.val) ELSE @]
  /\ UNCHANGED <<agent_id, data_files, validation_files, build_files, registry, pc, feedback_history, temp_text, instances>>

\* lines 165-170: client.submit_feedback(rebalancer.agent_id, quality_score,
\* comment)
WorkflowSubmitFeedback ==
  /\ AtStep("submit_feedback")
  /\ \E now \in ClockReadings :
       LET r == submit_feedback(Self("client"), feedback_history, agent_id["rebalancer"],
                                workflow.quality_score.int, PyStr("Excellent"), now)
       IN  /\ call' = [op |-> "submit_feedback",
                       args |-> [server_agent_id |-> agent_id["rebalancer"],
                                 score |-> workflow.quality_score.int],
                       result |-> r.ret]
           /\ feedback_history' = r.feedback_history
           /\ workflow' = AfterStep(workflow, r.ret.ok)
  /\ UNCHANGED <<agent_id, data_files, validation_files, build_files, registry, pc, temp_text, instances>>

\* lines 177-201: client.check_rebalancer_reputation(rebalancer.agent_id),
\* the summary and the return
WorkflowSummarize ==
  /\ AtStep("check_rebalancer_reputation")
  /\ call' = [op |-> "check_rebalancer_reputation",
              args |-> [server_agent_id |-> agent_id["rebalancer"]],
              result |-> Return(check_rebalancer_reputation(feedback_history,
                                                            agent_id["rebalancer"]))]
  /\ workflow' = AfterStep(workflow, TRUE)
  /\ UNCHANGED <<agent_id, data_files, validation_files, build_files, registry, pc, feedback_history, temp_text, instances>>

NextWorkflow ==
  \/ \E a \in Agents : WorkflowRegister(a)
  \/ WorkflowCreatePlan
  \/ WorkflowGenerateProof
  \/ WorkflowSubmitProof
  \/ WorkflowValidate
  \/ WorkflowSubmitResponse
  \/ WorkflowAuthorize
  \/ WorkflowEvaluate
  \/ WorkflowSubmitFeedback
  \/ WorkflowSummarize

SpecWorkflow == InitWorkflow /\ [][NextWorkflow]_vars

(***************************************************************************)
(* Claims about the workflow                                               *)
(***************************************************************************)
\* C11: the steps of the workflow run in the order of the sequence, each one
\* only after every step before it ended well; after a step that failed no
\* step runs, neither a later one nor the failed one again.
C11_AbortOnFatalError ==
  LET trail == workflow.trail
  IN  /\ Len(trail) <= Len(WorkflowSteps)
      /\ \A i \in 1..Len(trail) :
           /\ trail[i].step = WorkflowSteps[i]
           /\ i < Len(trail) => trail[i].ok
      /\ workflow.status = "failed" <=> (Len(trail) > 0 /\ ~trail[Len(trail)].ok)
      /\ workflow.status = "done" <=>
           (Len(trail) = Len(WorkflowSteps) /\ trail[Len(trail)].ok)

\* no step follows a step that failed, and nothing of the agents' world
\* changes once the workflow has failed
C11_NothingAfterFailure ==
  [][workflow.status = "failed" => UNCHANGED vars]_vars

\* validate_proof did not raise but reported 'Invalid proof package format',
\* and the workflow stopped there, after six steps that ended well
C11_Witness ==
  /\ workflow.status = "failed"
  /\ Len(workflow.trail) = 7
  /\ call.op = "validate_proof" /\ call.result.ok
  /\ call.result.val = ErrorResult("Invalid proof package format")

(***************************************************************************)
(* ValidatorAgent._verify_proof_cryptography followed step by step, for    *)
(* validators of several workflow instances that run at the same time in   *)
(* one working directory (the paths build/temp_proof.json and              *)
(* build/temp_public.json are the same for all of them)                    *)
(***************************************************************************)
Instances == {1, 2}

TempProofPath  == "build/temp_proof.json"
TempPublicPath == "build/temp_public.json"

\* a proof snarkjs rejects: well-formed, with other points
ForgedProof == MakeProof(Point3, Point3, PyList(<<N1, N1, N1>>), PyStr("groth16"), PyStr("bn128"))

\* what each instance validates
InstanceProof(i)        == IF i = 1 THEN GoodProof ELSE ForgedProof
InstancePublicInputs(i) == IF i = 1 THEN PyList(<<N1>>) ELSE PyList(<<N9>>)

\* snarkjs groth16 verify on the documents it reads: OK for the proof that
\* was generated for these public inputs
SnarkjsAccepts(public_inputs, proof) ==
  public_inputs = PyList(<<N1>>) /\ proof = GoodProof

\* lines 166-177: subprocess.run(["snarkjs", "groth16", "verify", ...]) on
\* the files as they are when it runs; a missing file makes snarkjs fail
SnarkjsRun(files) ==
  IF {TempProofPath, TempPublicPath} \subseteq DOMAIN files
       /\ SnarkjsAccepts(json_loads(files[TempPublicPath]), json_loads(files[TempProofPath]))
    THEN [raised |-> "none", returncode |-> 0, ok_marker |-> TRUE]
    ELSE [raised |-> "none", returncode |-> 1, ok_marker |-> FALSE]

WithoutFile(files, name) == [n \in DOMAIN files \ {name} |-> files[n]]

\* lines 186-191: the score for the result of the run
ScoreOfRun(proof, public_inputs, run) == _verify_proof_cryptography(proof, public_inputs, run)

InitConcurrent ==
  /\ data_files = <<>>
  /\ validation_files = <<>>
  /\ build_files = {}
  /\ registry = <<>>
  /\ pc = Idle
  /\ call = NoCall
  /\ feedback_history = <<>>
  /\ workflow = <<>>
  /\ temp_text = <<>>
  /\ agent_id = [a \in Agents |-> RegisteredId(a)]
  /\ instances \in {[i \in Instances |->
                       [at |-> IF i \in S THEN "write_proof" ELSE "absent",
                        proof |-> InstanceProof(i),
                        public_inputs |-> InstancePublicInputs(i)]] :
                    S \in (SUBSET Instances) \ {{}}}

\* instance i moves on; the files are as given
Step(i, fields, files) ==
  /\ instances' = [instances EXCEPT ![i] = fields @@ instances[i]]
  /\ temp_text' = files
  /\ build_files' = DOMAIN files
  /\ UNCHANGED <<agent_id, data_files, validation_files, registry, pc, call, feedback_history, workflow>>

\* lines 158-159: with open(temp_proof_path, "w") as f: json.dump(proof, f)
ConcWriteProof(i) ==
  /\ instances[i].at = "write_proof"
  /\ Step(i, [at |-> "write_public"],
          WithFile(temp_text, TempProofPath, json_dumps(instances[i].proof, FALSE, 0)))

\* lines 161-162: with open(temp_public_path, "w") as f: json.dump(public_inputs, f)
ConcWritePublic(i) ==
  /\ instances[i].at = "write_public"
  /\ Step(i, [at |-> "run"],
          WithFile(temp_text, TempPublicPath,
                   json_dumps(instances[i].public_inputs, FALSE, 0)))

\* lines 166-177: result = subprocess.run(...)
ConcRunVerifier(i) ==
  /\ instances[i].at = "run"
  /\ Step(i, [at |-> "exists_proof", result |-> SnarkjsRun(temp_text)], temp_text)

\* line 180: if os.path.exists(temp_proof_path)
ConcExistsProof(i) ==
  /\ instances[i].at = "exists_proof"
  /\ Step(i, [at |-> IF TempProofPath \in DOMAIN temp_text THEN "remove_proof"
                                                           ELSE "exists_public"],
          temp_text)

\* line 181: os.remove(temp_proof_path); FileNotFoundError ends in the
\* except clause of line 193 with 50
ConcRemoveProof(i) ==
  /\ instances[i].at = "remove_proof"
  /\ IF TempProofPath \in DOMAIN temp_text
       THEN Step(i, [at |-> "exists_public"], WithoutFile(temp_text, TempProofPath))
       ELSE Step(i, [at |-> "done",
                     score |-> ScoreOfRun(instances[i].proof, instances[i].public_inputs,
                                          [raised |-> "run", returncode |-> 0,
                                           ok_marker |-> FALSE])],
                 temp_text)

\* line 182: if os.path.exists(temp_public_path), and lines 186-191 when
\* the file is not there
ConcExistsPublic(i) ==
  /\ instances[i].at = "exists_public"
  /\ IF TempPublicPath \in DOMAIN temp_text
       THEN Step(i, [at |-> "remove_public"], temp_text)
       ELSE Step(i, [at |-> "done",
                     score |-> ScoreOfRun(instances[i].proof, instances[i].public_inputs,
                                          instances[i].result)],
                 temp_text)

\* line 183: os.remove(temp_public_path), and lines 186-191
ConcRemovePublic(i) ==
  /\ instances[i].at = "remove_public"
  /\ IF TempPublicPath \in DOMAIN temp_text
       THEN Step(i, [at |-> "done",
                     score |-> ScoreOfRun(instances[i].proof, instances[i].public_inputs,
                                          instances[i].result)],
                 WithoutFile(temp_text, TempPublicPath))
       ELSE Step(i, [at |-> "done",
                     score |-> ScoreOfRun(instances[i].proof, instances[i].public_inputs,
                                          [raised |-> "run", returncode |-> 0,
                                           ok_marker |-> FALSE])],
                 temp_text)

NextConcurrent ==
  \E i \in Instances :
    \/ ConcWriteProof(i)
    \/ ConcWritePublic(i)
    \/ ConcRunVerifier(i)
    \/ ConcExistsProof(i)
    \/ ConcRemoveProof(i)
    \/ ConcExistsPublic(i)
    \/ ConcRemovePublic(i)

SpecConcurrent == InitConcurrent /\ [][NextConcurrent]_vars

(***************************************************************************)
(* Claims about concurrent workflow instances                              *)
(***************************************************************************)
\* the score the stage gives instance i when it runs alone
ScoreAlone(i) ==
  LET accepts == SnarkjsAccepts(InstancePublicInputs(i), InstanceProof(i))
  IN  IF accepts THEN 100 ELSE 0

\* C12: validators of interleaved workflow instances obtain the stage scores
\* they obtain when run alone.
C12_InstancesIndependent ==
  \A i \in Instances :
    instances[i].at = "done" => instances[i].score = ScoreAlone(i)

\* the verifier of an instance never reads a document another instance wrote
C12_NoMixedRead ==
  \A i \in Instances :
    instances[i].at = "run" =>
      /\ {TempProofPath, TempPublicPath} \subseteq DOMAIN temp_text
      /\ json_loads(temp_text[TempProofPath]) = instances[i].proof
      /\ json_loads(temp_text[TempPublicPath]) = instances[i].public_inputs

\* an instance that runs with no other instance present obtains its score
C12_AloneAsExpected ==
  \A i \in Instances :
    ((\A j \in Instances \ {i} : instances[j].at = "absent") /\ instances[i].at = "done")
      => instances[i].score = ScoreAlone(i)

(***************************************************************************)
(* Claims about the independence of the stages                             *)
(***************************************************************************)
\* C13: in every validation result the structure score and the logic score
\* are the values of _verify_proof_structure and _verify_rebalancing_logic on
\* the package alone: they are the same whether the verifier accepts, rejects
\* or cannot be run.
C13_StagesIndependent ==
  HasReport(call) =>
    LET pkg == call.args.data_hash
    IN  /\ StructureOf(call) = _verify_proof_structure(DictGet(pkg, "proof", PyNone),
                                                       DictGet(pkg, "public_inputs", PyNone))
        /\ LogicOf(call) = _verify_rebalancing_logic(pkg)

\* the verifier could not be run, the crypto stage gave 50, and the other
\* two stages gave 100
C13_Witness ==
  /\ HasReport(call)
  /\ call.args.run.raised = "run"
  /\ CryptoOf(call) = 50
  /\ StructureOf(call) = 100
  /\ LogicOf(call) = 100

(***************************************************************************)
(* Claims about the codomain of the logic stage                            *)
(***************************************************************************)
\* C14 as stated: for every package _verify_rebalancing_logic returns one of
\* 0, 30, 70, 100.
C14_LogicCodomain ==
  Done(call, "_verify_rebalancing_logic") => call.result.score \in {0, 30, 70, 100}

\* C14, amended: for every package, well-formed or malformed,
\* _verify_rebalancing_logic returns one of 0, 30, 50, 70, 100, the 50 exactly
\* when the recomputation raises, and the value is the one the function gives
\* on an equal package whatever the state of the agents.
C14_LogicCodomainAmended ==
  Done(call, "_verify_rebalancing_logic") =>
    LET pkg == call.args.proof_package
    IN  /\ call.result.score \in {0, 30, 50, 70, 100}
        /\ (call.result.score = 50) <=> ~RebalancingLogicBody(pkg).ok
        /\ \A c \in LogicCalls :
             c.args.proof_package = pkg =>
               call.result.score = _verify_rebalancing_logic(c.args.proof_package)

\* a malformed plan was scored 50
C14_Witness ==
  /\ Done(call, "_verify_rebalancing_logic")
  /\ call.args.proof_package.t = "dict"
  /\ ~RebalancingLogicBody(call.args.proof_package).ok
  /\ call.result.score = 50

\* validate_proof at the end of a workflow, after registrations, plan
\* building, proof generation and publication: the logic score is the value
\* of the function on the package
C14_SameAfterEarlierCalls ==
  (workflow.status # "failed" /\ Len(workflow.trail) >= 7) =>
    DictGet(DictGet(DictGet(workflow.validation_result, "validation_package", PyNone),
                    "validation_report", PyNone), "logic_score", PyNone)
      = PyNum(_verify_rebalancing_logic(workflow.proof_package))

(***************************************************************************)
(* Claims about the allocations of a plan                                  *)
(***************************************************************************)
RECURSIVE SumEntryPct(_, _)
\* the sum of the rounded percentages of the first n entries, in hundredths
SumEntryPct(allocs, n) ==
  IF n = 0 THEN 0 ELSE SumEntryPct(allocs, n - 1) + EntryPct(allocs[n])

\* create_rebalancing_plan was called with texts of numbers whose totals are
\* equal, numeric bounds, and the chain answering
EqualTotalsCall ==
  /\ Done(call, "create_rebalancing_plan")
  /\ TotalsDefined(call.args.old_balances, call.args.new_balances, call.args.prices)
  /\ AllNumerals(call.args.old_balances.list, Len(call.args.old_balances.list))
  /\ AllNumerals(call.args.new_balances.list, Len(call.args.new_balances.list))
  /\ AllNumerals(call.args.prices.list, Len(call.args.prices.list))
  /\ OldTotal(call.args) = NewTotal(call.args)
  /\ PyInt(OrDefault(call.args.min_allocation_pct, DefaultMinAllocationPct)).ok
  /\ PyInt(OrDefault(call.args.max_allocation_pct, DefaultMaxAllocationPct)).ok
  /\ call.args.block.ok

AllocationsOf(plan) == DictGet(plan, "new_allocations", PyNone).list

\* C15: for all balance and price sequences with equal old and new totals
\* create_rebalancing_plan succeeds and the rounded allocation percentages of
\* the plan sum to 100 within 0.01.
C15_AllocationsSumTo100 ==
  EqualTotalsCall =>
    /\ call.result.ok
    /\ LET allocs == AllocationsOf(call.result.val)
           total  == SumEntryPct(allocs, Len(allocs))
       IN  total \in 9999..10001

\* with a positive total and at most three assets the sum is within 0.01
C15_SumOfUpToThree ==
  (EqualTotalsCall /\ NewTotal(call.args) > 0 /\ Len(call.args.new_balances.list) <= 3
     /\ Len(call.args.prices.list) <= 3) =>
    /\ call.result.ok
    /\ LET allocs == AllocationsOf(call.result.val)
       IN  SumEntryPct(allocs, Len(allocs)) \in 9999..10001

\* the four assets worth 1, 1, 1, 29 gave 3.12 + 3.12 + 3.12 + 90.62 = 99.98
C15_FourAssets ==
  (Done(call, "create_rebalancing_plan") /\ call.args = FourAssetArgs) =>
    /\ call.result.ok
    /\ SumEntryPct(AllocationsOf(call.result.val), 4) = 9998

\* some asset of the returned plan holds a share of the new total outside
\* [min_pct, max_pct]
SomeAssetOutside(plan) ==
  LET allocs    == AllocationsOf(plan)
      new_total == DictGet(plan, "new_total_value", PyNone).int
      min_pct   == PyInt(DictGet(plan, "min_allocation_pct", PyNone)).val
      max_pct   == PyInt(DictGet(plan, "max_allocation_pct", PyNone)).val
  IN  \E i \in 1..Len(allocs) :
        ExactlyOutside(DictGet(allocs[i], "value", PyNone).int, new_total, min_pct, max_pct)

\* the logic stage on a package that carries the plan
LogicScoreOfPlan(plan) == _verify_rebalancing_logic(PyDict(<< <<"rebalancing_plan", plan>> >>))

\* C16: when the totals are preserved and some asset's percentage lies outside
\* [minPct, maxPct], create_rebalancing_plan returns the plan and emits a
\* warning, and the logic stage on that plan returns 70, so that
\* meets_constraints is false.
C16_BoundsAdvisory ==
  (EqualTotalsCall /\ call.result.ok /\ SomeAssetOutside(call.result.val)) =>
    /\ call.result.warnings # <<>>
    /\ LogicScoreOfPlan(call.result.val) = 70
    /\ ~MeetsConstraints(LogicScoreOfPlan(call.result.val))

\* in that case the plan is returned, and when none of the three sequences
\* is empty the logic stage returns 70; meets_constraints is false in any case
C16_ReturnedAndEnforced ==
  EqualTotalsCall =>
    /\ call.result.ok
    /\ SomeAssetOutside(call.result.val) =>
         /\ Len(call.args.old_balances.list) > 0 => LogicScoreOfPlan(call.result.val) = 70
         /\ ~MeetsConstraints(LogicScoreOfPlan(call.result.val))

\* 60.004 % against the bound 60: no warning at build time, 70 at validation
C16_SilentAtBuildTime ==
  (Done(call, "create_rebalancing_plan") /\ call.args = JustAboveMaxArgs) =>
    /\ call.result.ok
    /\ call.result.warnings = <<>>
    /\ LogicScoreOfPlan(call.result.val) = 70

(***************************************************************************)
(* The client's feedback history under sequences of submit_feedback,       *)
(* check_rebalancer_reputation and get_feedback_history                    *)
(***************************************************************************)
MaxFeedback == 3

FeedbackServers == {1, 2}
FeedbackScores  == {-1, 60, 80, 100, 101}

InitFeedback ==
  /\ InitIdle
  /\ call = NoCall
  /\ \E id \in {0, 3} :
       agent_id = [a \in Agents |-> IF a = "client" THEN id ELSE RegisteredId(a)]

SubmitFeedback ==
  /\ Len(feedback_history) < MaxFeedback
  /\ \E server_agent_id \in FeedbackServers, score \in FeedbackScores,
        now \in ClockReadings :
       LET r == submit_feedback(Self("client"), feedback_history, server_agent_id,
                                score, PyStr("Good plan"), now)
       IN  /\ call' = [op |-> "submit_feedback",
                       args |-> [server_agent_id |-> server_agent_id, score |-> score],
                       result |-> r.ret]
           /\ feedback_history' = r.feedback_history
  /\ UNCHANGED <<agent_id, data_files, validation_files, build_files, registry, pc, temp_text, instances, workflow>>

CheckRebalancerReputation ==
  /\ \E server_agent_id \in FeedbackServers :
       call' = [op |-> "check_rebalancer_reputation",
                args |-> [server_agent_id |-> server_agent_id],
                result |-> Return(check_rebalancer_reputation(feedback_history,
                                                              server_agent_id))]
  /\ UNCHANGED <<agent_id, data_files, validation_files, build_files, registry, pc, feedback_history, temp_text, instances, workflow>>

GetFeedbackHistory ==
  /\ call' = [op |-> "get_feedback_history", args |-> <<>>,
              result |-> Return(get_feedback_history(feedback_history))]
  /\ UNCHANGED <<agent_id, data_files, validation_files, build_files, registry, pc, feedback_history, temp_text, instances, workflow>>

\* an entry of new_allocations with the percentage given in hundredths
AllocationOf(hundredths) == PyDict(<< <<"allocation_pct", PyFloat2(hundredths)>> >>)

\* the plans of the packages the client evaluates
QualityPlans ==
  {PyDict(<< <<"new_allocations", PyList([i \in 1..Len(ps) |-> AllocationOf(ps[i])])>> >>) :
     ps \in {<<>>, <<5000, 5000>>, <<4999, 5001>>, <<4999, 4999, 2>>, <<6000, 4000>>,
             <<2500, 2500, 2500, 2500>>}}
  \cup {Omitted, PyDict(<<>>), PyNone,
        PyDict(<< <<"new_allocations", PyList(<<PyDict(<<>>)>>)>> >>)}

QualityPackages ==
  {DictOf(<< <<"proof", proof>>, <<"public_inputs", public_inputs>>,
             <<"rebalancing_plan", plan>> >>) :
     proof \in {GoodProof, Omitted}, public_inputs \in {PyList(<<N1>>), Omitted},
     plan \in QualityPlans}
  \cup {PyNone}

NextFeedback == SubmitFeedback \/ CheckRebalancerReputation \/ GetFeedbackHistory

SpecFeedback == InitFeedback /\ [][NextFeedback]_vars

(***************************************************************************)
(* evaluate_rebalancing_quality as an operation of the client              *)
(***************************************************************************)
QualityCalls ==
  {[op |-> "evaluate_rebalancing_quality", args |-> [proof_package |-> proof_package],
    result |-> Pending] : proof_package \in QualityPackages}

InitQuality ==
  /\ InitIdle
  /\ call \in QualityCalls
  /\ \E id \in {0, 3} :
       agent_id = [a \in Agents |-> IF a = "client" THEN id ELSE RegisteredId(a)]

EvaluateRebalancingQuality ==
  /\ call.op = "evaluate_rebalancing_quality" /\ IsPending(call)
  /\ call' = [call EXCEPT !.result = evaluate_rebalancing_quality(call.args.proof_package)]
  /\ UNCHANGED <<agent_id, data_files, validation_files, build_files, registry, pc, feedback_history, temp_text, instances, workflow>>

NextQuality == EvaluateRebalancingQuality

SpecQuality == InitQuality /\ [][NextQuality]_vars

(***************************************************************************)
(* Claims about the feedback history and the reputation summary            *)
(***************************************************************************)
IsPrefix(s, t) == Len(s) <= Len(t) /\ SubSeq(t, 1, Len(s)) = s

\* C17: over every step of submit_feedback, check_rebalancer_reputation and
\* get_feedback_history the history before is a prefix of the history after;
\* an accepted submit_feedback adds one record at the end, a rejected one and
\* the two queries leave the history as it is.
C17_AppendOnly ==
  [][/\ IsPrefix(feedback_history, feedback_history')
     /\ call'.op = "submit_feedback" =>
          IF call'.result.ok
            THEN /\ Len(feedback_history') = Len(feedback_history) + 1
                 /\ feedback_history'[Len(feedback_history')] = call'.result.val
            ELSE feedback_history' = feedback_history
     /\ call'.op \in {"check_rebalancer_reputation", "get_feedback_history"} =>
          feedback_history' = feedback_history]_vars

\* a submit_feedback with score 101 was rejected while two records were held,
\* and both are still there
C17_Witness ==
  /\ call.op = "submit_feedback"
  /\ call.args.score = 101
  /\ ~call.result.ok
  /\ Len(feedback_history) = 2
  /\ DictGet(feedback_history[1], "score", PyNone) = PyNum(80)
  /\ DictGet(feedback_history[2], "score", PyNone) = PyNum(60)

\* the records of the history whose server_id is the server asked about
RecordsFor(history, server_agent_id) ==
  {i \in 1..Len(history) : DictGet(history[i], "server_id", PyNone) = PyNum(server_agent_id)}

RECURSIVE SumOver(_, _)
\* the sum of the scores of the records at the positions in S
SumOver(history, S) ==
  IF S = {} THEN 0
  ELSE LET i == SetMax(S)
       IN  DictGet(history[i], "score", PyNone).int + SumOver(history, S \ {i})

\* x is the double nearest to sum / n: between the whole numbers around the
\* quotient, equal to the quotient when the division is exact, and equal to
\* it when both are rounded to two decimals
IsMeanOf(x, sum, n) ==
  /\ FCmp(x, FromInt(sum \div n)) >= 0
  /\ FCmp(x, FromInt((sum \div n) + 1)) < 0
  /\ sum % n = 0 => x = FromInt(sum \div n)
  /\ Round2(x) = (200 * sum + n) \div (2 * n)

\* C18: check_rebalancer_reputation(serverId) returns feedback_count equal to
\* the number of recorded feedbacks whose server_id is serverId and
\* average_score equal to the mean of exactly those scores; with no such
\* record it returns count 0, average 0 and no last record, and it never
\* raises.
C18_ReputationSummary ==
  Done(call, "check_rebalancer_reputation") =>
    /\ call.result.ok
    /\ LET S       == RecordsFor(feedback_history, call.args.server_agent_id)
           summary == call.result.val
           average == DictGet(summary, "average_score", PyNone)
       IN  /\ DictGet(summary, "server_id", PyNone) = PyNum(call.args.server_agent_id)
           /\ DictGet(summary, "feedback_count", PyNone) = PyNum(Cardinality(S))
           /\ IF S = {}
                THEN /\ average = PyNum(0)
                     /\ DictGet(summary, "last_feedback", PyNone) = PyNone
                ELSE /\ average.t = "float"
                     /\ IsMeanOf(average.float, SumOver(feedback_history, S), Cardinality(S))

\* the scores 80, 60, 100 for one server gave count 3 and average 80
C18_Witness ==
  /\ Done(call, "check_rebalancer_reputation")
  /\ Len(feedback_history) = 3
  /\ \A i \in 1..3 :
       DictGet(feedback_history[i], "server_id", PyNone) = PyNum(call.args.server_agent_id)
  /\ DictGet(feedback_history[1], "score", PyNone) = PyNum(80)
  /\ DictGet(feedback_history[2], "score", PyNone) = PyNum(60)
  /\ DictGet(feedback_history[3], "score", PyNone) = PyNum(100)
  /\ DictGet(call.result.val, "feedback_count", PyNone) = PyNum(3)
  /\ DictGet(call.result.val, "average_score", PyNone) = PyFloat(FromInt(80))

\* a summary for a server while the history holds a record of another server
\* only: count 0, average 0, no last record
C18_OtherServerOnly ==
  /\ Done(call, "check_rebalancer_reputation")
  /\ Len(feedback_history) > 0
  /\ RecordsFor(feedback_history, call.args.server_agent_id) = {}
  /\ DictGet(call.result.val, "feedback_count", PyNone) = PyNum(0)

\* the position of the record for the server with the greatest timestamp,
\* the last inserted among equals
MostRecentFor(history, server_agent_id) ==
  LET S    == RecordsFor(history, server_agent_id)
      T(i) == DictGet(history[i], "timestamp", PyNone).int
  IN  SetMax({i \in S : \A j \in S : T(j) <= T(i)})

\* C19: the last record of a reputation summary is the record for that server
\* with the greatest timestamp, the one inserted last among records with the
\* equal greatest timestamp.
C19_LastByTimestamp ==
  (Done(call, "check_rebalancer_reputation")
     /\ RecordsFor(feedback_history, call.args.server_agent_id) # {}) =>
    DictGet(call.result.val, "last_feedback", PyNone)
      = feedback_history[MostRecentFor(feedback_history, call.args.server_agent_id)]

\* the last record of a summary is the server's record inserted last
C19_LastInserted ==
  (Done(call, "check_rebalancer_reputation")
     /\ RecordsFor(feedback_history, call.args.server_agent_id) # {}) =>
    DictGet(call.result.val, "last_feedback", PyNone)
      = feedback_history[SetMax(RecordsFor(feedback_history, call.args.server_agent_id))]

\* while the clock does not go back between submissions the two agree
C19_AgreeUnderMonotonicClock ==
  (/\ Done(call, "check_rebalancer_reputation")
   /\ RecordsFor(feedback_history, call.args.server_agent_id) # {}
   /\ \A i, j \in 1..Len(feedback_history) :
        i <= j => DictGet(feedback_history[i], "timestamp", PyNone).int
                    <= DictGet(feedback_history[j], "timestamp", PyNone).int) =>
    DictGet(call.result.val, "last_feedback", PyNone)
      = feedback_history[MostRecentFor(feedback_history, call.args.server_agent_id)]

(***************************************************************************)
(* Claims about the quality rubric                                         *)
(***************************************************************************)
\* the package is a dict whose plan, when present, is a dict whose
\* allocations, when present, are a list of entries with a percentage
RubricApplies(pkg) ==
  /\ pkg.t = "dict"
  /\ LET plan == DictGet(pkg, "rebalancing_plan", PyDict(<<>>))
     IN  /\ plan.t = "dict"
         /\ LET allocations == DictGet(plan, "new_allocations", PyList(<<>>))
            IN  /\ allocations.t = "list"
                /\ \A i \in 1..Len(allocations.list) :
                     /\ allocations.list[i].t = "dict"
                     /\ HasKey(allocations.list[i], "allocation_pct")

\* the rubric with a bonus decided by Diversified(percentages in hundredths)
Rubric(pkg, Diversified(_)) ==
  LET plan        == DictGet(pkg, "rebalancing_plan", PyDict(<<>>))
      allocations == DictGet(plan, "new_allocations", PyList(<<>>)).list
      pcts        == {EntryPct(allocations[i]) : i \in 1..Len(allocations)}
      sum == 50 + (IF HasKey(pkg, "proof") THEN 15 ELSE 0)
                + (IF HasKey(pkg, "public_inputs") THEN 10 ELSE 0)
                + (IF HasKey(pkg, "rebalancing_plan") THEN 15 ELSE 0)
                + (IF HasKey(plan, "new_allocations") THEN 10 ELSE 0)
                + (IF pcts # {} /\ Diversified(pcts) THEN 10 ELSE 0)
  IN  MinOf(100, IF sum < 0 THEN 0 ELSE sum)

NoneExceedsHalf(pcts) == \A p \in pcts : p <= 5000
AllBelowHalf(pcts)    == \A p \in pcts : p < 5000

\* C20: evaluate_rebalancing_quality returns the rubric's value, with the
\* diversification points given when no allocation exceeds 50 % (an allocation
\* of exactly 50 % does not exceed it); the value is in 0..100.
C20_QualityRubric ==
  (Done(call, "evaluate_rebalancing_quality") /\ RubricApplies(call.args.proof_package)) =>
    /\ call.result.ok
    /\ call.result.val = Rubric(call.args.proof_package, NoneExceedsHalf)
    /\ call.result.val \in 0..100

\* the value returned is the rubric's with the diversification points given
\* when every allocation is below 50 %; it is the value of the function on
\* the package whoever the client is
C20_RubricBelowHalf ==
  Done(call, "evaluate_rebalancing_quality") =>
    /\ call.result = evaluate_rebalancing_quality(call.args.proof_package)
    /\ RubricApplies(call.args.proof_package) =>
         /\ call.result.ok
         /\ call.result.val = Rubric(call.args.proof_package, AllBelowHalf)
         /\ call.result.val \in 0..100

\* two allocations of exactly 50 % and no proof: 75, without the points
C20_ExactlyHalf ==
  /\ Done(call, "evaluate_rebalancing_quality")
  /\ call.args.proof_package =
       DictOf(<< <<"proof", Omitted>>, <<"public_inputs", Omitted>>,
                 <<"rebalancing_plan",
                   PyDict(<< <<"new_allocations",
                               PyList(<<AllocationOf(5000), AllocationOf(5000)>>)>> >>)>> >>)
  /\ call.result = Return(75)

(***************************************************************************)
(* Claims about the identity of an agent                                   *)
(***************************************************************************)
\* C21: once an agent's agent_id holds a positive id no step changes it;
\* register_agent on a registered agent returns that id and sends no
\* registry transaction; a register_agent that returns leaves agent_id set
\* to the positive id it returned.
C21_IdentityImmutable ==
  [][/\ \A a \in Agents : agent_id[a] > 0 => agent_id'[a] = agent_id[a]
     /\ call'.op = "register_agent" =>
          LET a == call'.args.agent
          IN  /\ agent_id[a] > 0 =>
                   /\ call'.result = Return(agent_id[a])
                   /\ registry' = registry
              /\ call'.result.ok =>
                   /\ call'.result.val > 0
                   /\ agent_id'[a] = call'.result.val
              /\ ~call'.result.ok => agent_id'[a] = agent_id[a]]_vars

\* register_agent of the validator, registered before, returned its id 2
\* after the rebalancer's registration sent the only transaction
C21_Witness ==
  /\ call.op = "register_agent"
  /\ call.args.agent = "validator"
  /\ call.result = Return(2)
  /\ agent_id["validator"] = 2
  /\ Len(registry) = 1
  /\ registry[1].agent_domain = AgentDomain("rebalancer")

(***************************************************************************)
(* Claims about the default allocation bounds                              *)
(***************************************************************************)
\* the plan with the bounds 0 and 100 written in where it has none
WithBounds0To100(plan) ==
  PyDict(plan.dict
         \o (IF HasKey(plan, "min_allocation_pct") THEN <<>>
             ELSE << <<"min_allocation_pct", PyDStr(<<"0">>)>> >>)
         \o (IF HasKey(plan, "max_allocation_pct") THEN <<>>
             ELSE << <<"max_allocation_pct", PyDStr(<<"1", "0", "0">>)>> >>))

\* the logic stage scores a plan that lacks a bound as it scores the plan
\* with 0 or 100 in its place
LogicDefaultsTo0And100 ==
  (Done(call, "_verify_rebalancing_logic")
     /\ call.args.proof_package.t = "dict"
     /\ DictGet(call.args.proof_package, "rebalancing_plan", PyNone).t = "dict") =>
    LET plan == DictGet(call.args.proof_package, "rebalancing_plan", PyNone)
    IN  call.result.score = LogicScoreOfPlan(WithBounds0To100(plan))

\* create_rebalancing_plan called without a bound uses 0 or 100 in its place
BuilderDefaultsTo(min_default, max_default) ==
  (Done(call, "create_rebalancing_plan") /\ call.args.block.ok) =>
    call.result =
      create_rebalancing_plan(call.args.old_balances, call.args.new_balances,
                              call.args.prices,
                              OrDefault(call.args.min_allocation_pct, min_default),
                              OrDefault(call.args.max_allocation_pct, max_default),
                              call.args.block, Self("rebalancer"))

\* C22: the allocation bounds are 0 and 100 when the caller does not specify
\* them, both in create_rebalancing_plan called without bounds and in the
\* logic stage on a plan that lacks the bound fields.
C22_DefaultBounds ==
  /\ BuilderDefaultsTo(PyDStr(<<"0">>), PyDStr(<<"1", "0", "0">>))
  /\ LogicDefaultsTo0And100

\* the logic stage's half of it
C22_LogicDefaults == LogicDefaultsTo0And100

\* create_rebalancing_plan called without bounds uses 10 and 40
C22_BuilderDefaults10And40 ==
  BuilderDefaultsTo(PyDStr(<<"1", "0">>), PyDStr(<<"4", "0">>))

\* create_rebalancing_plan without bounds, assets at 45 % and 55 %: the plan
\* carries the bounds 10 and 40 and both assets are reported above the maximum
C22_WarnedAt40 ==
  /\ Done(call, "create_rebalancing_plan")
  /\ call.args.min_allocation_pct = Omitted /\ call.args.max_allocation_pct = Omitted
  /\ call.result.ok
  /\ DictGet(call.result.val, "max_allocation_pct", PyNone) = PyDStr(<<"4", "0">>)
  /\ Len(call.result.warnings) = 2

(***************************************************************************)
(* ValidatorAgent.submit_validation_response followed step by step: the    *)
(* file of the validation package is opened, written and closed, then the  *)
(* response is sent to the registry                                        *)
(***************************************************************************)
\* a second proof package, with other public inputs
PkgB == MakePackage(GoodProof, PyList(<<N9>>), PlanKept)

\* the validation package validate_proof builds for a proof package whose
\* crypto stage gave crypto_score
ValidationPackageFor(proof_package, crypto_score) ==
  DictGet(ValidationResult(Hex(ContentDigest(proof_package)), proof_package,
                           100, crypto_score, 100, 1000,
                           [agent_id |-> PyNum(RegisteredId("validator")),
                            agent_domain |-> AgentDomain("validator")]),
          "validation_package", PyNone)

\* validation packages handed to submit_validation_response: of validate_proof,
\* and ones lacking a field or with a data_hash that is no hex text
RespondPackages ==
  {ValidationPackageFor(PkgA, 100), ValidationPackageFor(PkgA, 0),
   ValidationPackageFor(PkgB, 100),
   PyDict(<<>>),
   PyDict(<< <<"data_hash", PyStr("not hex")>>, <<"validation_score", PyNum(100)>> >>),
   PyDict(<< <<"data_hash", Hex(ContentDigest(PkgA))>> >>)}

InitRespond ==
  /\ InitIdle
  /\ call = NoCall
  /\ \E id \in {0, 2} :
       agent_id = [a \in Agents |-> IF a = "validator" THEN id ELSE RegisteredId(a)]

RespondArgs(p) == [validation_package |-> p.validation_package]

\* lines 257-258 and _store_validation_package up to and with
\* open(f"validations/{data_hash}.json", "w")
RespondOpen ==
  /\ pc = Idle
  /\ \E validation_package \in RespondPackages :
       LET hash_text == Subscript(validation_package, "data_hash")
           data_hash == IF hash_text.ok THEN FromHex(hash_text.val) ELSE hash_text
           score     == Subscript(validation_package, "validation_score")
           failed    == IF ~data_hash.ok THEN data_hash ELSE score
       IN  IF ~failed.ok
             THEN /\ call' = [op |-> "submit_validation_response",
                              args |-> [validation_package |-> validation_package],
                              result |-> failed]
                  /\ UNCHANGED <<pc, validation_files>>
             ELSE /\ pc' = [at |-> "writing", validation_package |-> validation_package,
                            hash_text |-> hash_text.val, data_hash |-> data_hash.val,
                            score |-> score.val]
                  /\ validation_files' =
                       WithFile(validation_files, hash_text.val,
                                PartialFile(json_dumps(validation_package, FALSE, 2)))
                  /\ UNCHANGED call
  /\ UNCHANGED <<others, agent_id, data_files, build_files, registry>>

\* json.dump(validation_package, f, indent=2) and the end of the with block
RespondWrite ==
  /\ pc.at = "writing"
  /\ validation_files' =
       WithFile(validation_files, pc.hash_text,
                CompleteFile(json_dumps(pc.validation_package, FALSE, 2)))
  /\ pc' = [pc EXCEPT !.at = "stored"]
  /\ UNCHANGED <<others, agent_id, data_files, build_files, registry, call>>

\* the call is interrupted
RespondCancel ==
  /\ pc.at \in {"writing", "stored"}
  /\ pc' = Idle
  /\ call' = [op |-> "submit_validation_response", args |-> RespondArgs(pc),
              result |-> Raise("KeyboardInterrupt", "")]
  /\ UNCHANGED <<others, agent_id, data_files, validation_files, build_files, registry>>

\* a slip: the response is sent while the file is still open
RespondsWhileWriting(at) == at \in {"writing", "stored"}

\* lines 265-270: the response is sent after _store_validation_package returned
RespondsOnceStored(at) == at = "stored"

\* super().submit_validation_response(data_hash, score) and the return
RespondSend ==
  /\ RespondsOnceStored(pc.at)
  /\ pc' = Idle
  /\ \/ /\ agent_id["validator"] = 0
        /\ call' = [op |-> "submit_validation_response", args |-> RespondArgs(pc),
                    result |-> Raise("ValueError", "Agent must be registered first")]
        /\ UNCHANGED registry
     \/ /\ agent_id["validator"] # 0
        /\ call' = [op |-> "submit_validation_response", args |-> RespondArgs(pc),
                    result |-> Raise("ConnectionError", "rpc")]
        /\ UNCHANGED registry
     \/ /\ agent_id["validator"] # 0
        /\ Len(registry) < MaxTxs
        /\ \E chain \in {"reverted", "mined"} :
             LET tx == [fn |-> "validationResponse", data_hash |-> pc.data_hash,
                        response |-> pc.score, status |-> 0]
             IN  /\ registry' = registry \o Mined(chain, tx)
                 /\ call' = [op |-> "submit_validation_response", args |-> RespondArgs(pc),
                             result |-> IF chain = "mined"
                                          THEN Return(Hex(sha256(tx)))
                                          ELSE Raise("Exception",
                                                     "Validation response submission failed")]
  /\ UNCHANGED <<others, agent_id, data_files, validation_files, build_files>>

NextRespond == RespondOpen \/ RespondWrite \/ RespondCancel \/ RespondSend

SpecRespond == InitRespond /\ [][NextRespond]_vars

(***************************************************************************)
(* Claims about the publication of validation packages                     *)
(***************************************************************************)
\* C23: in every execution of submit_validation_response, when the
\* validationResponse for a hash is sent the validation package is completely
\* written in the validation namespace under that hash, and the score sent
\* is the validation_score of the package stored there.
C23_PublishBeforeRespond ==
  [][Len(registry') > Len(registry) =>
       LET tx  == registry'[Len(registry')]
           key == Hex(tx.data_hash)
       IN  /\ tx.fn = "validationResponse"
           /\ Published(validation_files, key)
           /\ validation_files' = validation_files
           /\ LET stored == json_loads(validation_files[key].text)
              IN  /\ DictGet(stored, "data_hash", PyNone) = key
                  /\ DictGet(stored, "validation_score", PyNone) = tx.response]_vars

\* the response 50 for the hash of PkgA was mined while the package stored
\* under that hash carries validation_score 50
C23_Witness ==
  /\ Done(call, "submit_validation_response")
  /\ call.result.ok
  /\ Len(registry) = 1
  /\ registry[1].status = 1
  /\ registry[1].response = PyNum(50)
  /\ Published(validation_files, Hex(registry[1].data_hash))
  /\ DictGet(json_loads(validation_files[Hex(registry[1].data_hash)].text),
             "validation_score", PyNone) = PyNum(50)

\* the call in one step gives what the steps give: the file and the result
C23_StepsAgreeWithCall ==
  (Done(call, "submit_validation_response") /\ call.result.ok /\ pc = Idle) =>
    \E files \in {[n \in DOMAIN validation_files \ {x} |-> validation_files[n]] :
                    x \in DOMAIN validation_files} \cup {validation_files} :
      LET r == submit_validation_response(call.args.validation_package, Self("validator"),
                                          files, "mined")
      IN  /\ r.ret = call.result
          /\ r.validation_files[Hex(r.txs[1].data_hash)]
               = validation_files[Hex(r.txs[1].data_hash)]

\* every response in the registry's log still references a completely written
\* package with the score sent (not so: a later call for the same hash
\* rewrites the file in place)
C23_EveryResponseStaysStored ==
  \A i \in 1..Len(registry) :
    LET key == Hex(registry[i].data_hash)
    IN  /\ Published(validation_files, key)
        /\ DictGet(json_loads(validation_files[key].text), "validation_score", PyNone)
             = registry[i].response

(***************************************************************************)
(* Claims about validity and cryptographic confirmation                    *)
(***************************************************************************)
\* C24: in every result of validate_proof is_valid = true implies
\* proof_valid = true (crypto score 100); a verifier error (crypto score 50)
\* never yields is_valid = true.
C24_ValidNeedsCrypto ==
  (HasReport(call) /\ DictGet(call.result.val, "is_valid", PyNone) = PyBool(TRUE)) =>
    /\ DictGet(ReportOf(call), "proof_valid", PyNone) = PyBool(TRUE)
    /\ CryptoOf(call) = 100

\* a proof the verifier rejected (crypto score 0) is never reported valid
C24_RejectedNeverValid ==
  (HasReport(call) /\ CryptoOf(call) = 0) =>
    DictGet(call.result.val, "is_valid", PyNone) = PyBool(FALSE)

\* the verifier could not be run, structure and logic gave 100: overall 75,
\* is_valid true, proof_valid false
C24_ValidOnVerifierError ==
  /\ HasReport(call)
  /\ call.args.run.raised # "none"
  /\ CryptoOf(call) = 50
  /\ OverallOf(call) = 75
  /\ DictGet(call.result.val, "is_valid", PyNone) = PyBool(TRUE)
  /\ DictGet(ReportOf(call), "proof_valid", PyNone) = PyBool(FALSE)

(***************************************************************************)
(* Claims about the agreement of the builder and the validator             *)
(***************************************************************************)
\* create_rebalancing_plan returned a plan and printed no bound warning
ReturnedWithoutWarning ==
  /\ Done(call, "create_rebalancing_plan")
  /\ call.result.ok
  /\ call.result.warnings = <<>>

\* C25: for every plan create_rebalancing_plan returns without an
\* allocation-bound warning, the logic stage on a package embedding that plan
\* returns 100.
C25_BuilderValidatorAgree ==
  ReturnedWithoutWarning => LogicScoreOfPlan(call.result.val) = 100

\* for such a plan the logic stage never returns 30 or 50, and returns 0 only
\* when one of the three sequences is empty
C25_NeverLostOrMalformed ==
  ReturnedWithoutWarning =>
    /\ LogicScoreOfPlan(call.result.val) \in {0, 70, 100}
    /\ LogicScoreOfPlan(call.result.val) = 0 =>
         \/ call.args.old_balances.list = <<>>
         \/ call.args.new_balances.list = <<>>
         \/ call.args.prices.list = <<>>

\* assets at 55 % and 45 % with the bounds 0 and 55: no warning from the
\* builder, 70 from the logic stage
C25_DisagreeOnTheBound ==
  /\ ReturnedWithoutWarning
  /\ call.args.max_allocation_pct = PyDStr(<<"5", "5">>)
  /\ Len(AllocationsOf(call.result.val)) = 2
  /\ EntryPct(AllocationsOf(call.result.val)[1]) = 5500
  /\ LogicScoreOfPlan(call.result.val) = 70

(***************************************************************************)
(* Claims about the registration guard                                     *)
(***************************************************************************)
\* C26: a call of submit_validation_response by a validator whose agent_id is
\* unassigned raises, sends no registry transaction, and leaves the agent's
\* id, the feedback history and both store namespaces as they were (empty,
\* as at construction).
C26_GuardWithoutSideEffects ==
  agent_id["validator"] = 0 =>
    /\ Done(call, "submit_validation_response") => ~call.result.ok
    /\ registry = <<>>
    /\ feedback_history = <<>>
    /\ data_files = <<>>
    /\ validation_files = <<>>

\* such a call raises, sends no transaction and leaves the id, the feedback
\* history and the proof namespace as they were
C26_NoTransactionUnregistered ==
  agent_id["validator"] = 0 =>
    /\ Done(call, "submit_validation_response") => ~call.result.ok
    /\ registry = <<>>
    /\ feedback_history = <<>>
    /\ data_files = <<>>

\* the unregistered validator's call raised at the guard after the
\* validation package had been written
C26_StoredThenRefused ==
  /\ agent_id["validator"] = 0
  /\ Done(call, "submit_validation_response")
  /\ call.result = Raise("ValueError", "Agent must be registered first")
  /\ \E key \in DOMAIN validation_files : Published(validation_files, key)

\* the same on the rebalancer's side: while the rebalancer is unregistered
\* its submit_proof_for_validation leaves the proof namespace empty
C26_RebalancerGuard ==
  agent_id["rebalancer"] = 0 => data_files = <<>> /\ registry = <<>>


(***************************************************************************)
(* Validation by hash and validation by package                            *)
(***************************************************************************)
\* what a result of validate_proof says about the package: the verdict, the
\* overall score, the hash it reports, and the report with the three stage
\* scores, the overall score and the two flags
ReportedFields(result) ==
  LET validation_package == DictGet(result, "validation_package", PyNone)
  IN  [is_valid          |-> DictGet(result, "is_valid", PyNone),
       score             |-> DictGet(result, "score", PyNone),
       data_hash         |-> DictGet(validation_package, "data_hash", PyNone),
       validation_score  |-> DictGet(validation_package, "validation_score", PyNone),
       validation_report |-> DictGet(validation_package, "validation_report", PyNone),
       report            |-> DictGet(result, "report", PyNone)]

\* two calls of validate_proof both returned a validation result, for the
\* hash h, with the same scores and flags
SameValidation(by_hash, by_package, h) ==
  /\ by_hash.ok /\ by_package.ok
  /\ HasKey(by_hash.val, "validation_package")
  /\ HasKey(by_package.val, "validation_package")
  /\ ReportedFields(by_hash.val) = ReportedFields(by_package.val)
  /\ ReportedFields(by_hash.val).data_hash = h

\* a submit_proof_for_validation of a package with hash h got as far as the
\* registry: its store write had finished
WasPublished(h) ==
  \E i \in 1..Len(registry) : /\ registry[i].fn = "validationRequest"
                              /\ Hex(registry[i].data_hash) = h

\* the validator is called with a hash text
ValidatedByHash == call' # call /\ call'.op = "validate_proof" /\ call'.args.data_hash.t = "hexstr"

\* the validator is called with a package
ValidatedByPackage == call' # call /\ call'.op = "validate_proof" /\ call'.args.data_hash.t = "dict"

\* validate_proof(package) in the state and with the verifier's verdict of
\* the call just made
ByPackage(proof_package) ==
  validate_proof(proof_package, data_files, call'.args.run, call'.args.block, Self("validator")).ret

\* validate_proof(h) in the state and with the verifier's verdict of the call
\* just made
ByHash(h) ==
  validate_proof(h, data_files, call'.args.run, call'.args.block, Self("validator")).ret

\* C27: for every proof package published by submit_proof_for_validation
\* under hash h, validate_proof(h) and validate_proof(package) return the
\* same data_hash (h), the same three stage scores, the same overall score
\* and the same flags, when the verifier gives the same verdict in both runs.
C27_HashAndPackageEquivalent ==
  [][ValidatedByHash /\ WasPublished(call'.args.data_hash) =>
       \A proof_package \in SubmitPackages :
         CanonicalHash(proof_package) = call'.args.data_hash =>
           \A by_package \in {ByPackage(proof_package)} :
             SameValidation(call'.result, by_package, call'.args.data_hash)]_vars

\* what holds: while the store entry of h is completely written, the call
\* on h and the call on either key order of the package agree, whichever of
\* the two is made
C27_EquivalentWhileStored ==
  [][/\ (ValidatedByHash /\ Published(data_files, call'.args.data_hash)) =>
          \A proof_package \in SubmitPackages :
            CanonicalHash(proof_package) = call'.args.data_hash =>
              \A by_package \in {ByPackage(proof_package)} :
                SameValidation(call'.result, by_package, call'.args.data_hash)
     /\ (ValidatedByPackage /\ Published(data_files, CanonicalHash(call'.args.data_hash))) =>
          \A by_hash \in {ByHash(CanonicalHash(call'.args.data_hash))} :
            SameValidation(by_hash, call'.result, CanonicalHash(call'.args.data_hash))]_vars

\* the package of a mined request is being written again, and the validator
\* called with its hash since then got an exception
C27_RaisedOnPublishedHash ==
  /\ Done(call, "validate_proof") /\ call.args.data_hash.t = "hexstr"
  /\ WasPublished(call.args.data_hash)
  /\ ~Published(data_files, call.args.data_hash)
  /\ ~call.result.ok /\ call.result.exc = "JSONDecodeError"

\* the validator called with a hash returned a validation result while the
\* package is stored in the other key order than the one submitted last
C27_AgreedOnStoredPackage ==
  /\ HasReport(call) /\ call.args.data_hash.t = "hexstr"
  /\ Published(data_files, call.args.data_hash)
  /\ WasPublished(call.args.data_hash)
  /\ ReportedFields(call.result.val).data_hash = call.args.data_hash

=============================================================================
